---- MODULE Spec2Model ----
(***************************************************************************)
(* A model of sib: the object model (blob, tree, commit, tag), the         *)
(* content-addressable object store, the atomic file write and the index   *)
(* save.                                                                   *)
(*                                                                         *)
(* Conventions.  A Go string or []byte is a sequence of character codes.   *)
(* A call that returns (value, error) is a record [err, val] whose err is  *)
(* "" on success.  SHA-256 is modelled symbolically: the digest of data d  *)
(* is the 64-character string "hex(sha256(d))", written [len, of], and two *)
(* digests are equal exactly when their data are (no collisions).  A JSON  *)
(* text is the record of its members, in the order the encoder emits them. *)
(***************************************************************************)
EXTENDS Integers, Sequences, FiniteSets, TLC

\* ------------------------------------------------------------------ bounds
MaxEntries == 2     \* most entries AddEntry may grow the tree to

\* ------------------------------------------------------- results and errors
Ok(v) == [err |-> "", val |-> v]
Fail(msg, zero) == [err |-> msg, val |-> zero]

\* -------------------------------------------------------------- primitives
\* Hash: a string.  "" is [len |-> 0]; a digest has len 64; h[:n] of a
\* digest keeps `of` and shortens len.
NoData == [hdr |-> <<"", 0>>, payload |-> <<>>]
NoHash == [len |-> 0, of |-> NoData]
HashHexLen == 64
IsEmpty(h) == h.len = 0

ObjectTypes == {"blob", "tree", "commit", "tag"}
ObjectTypeValidate(ot) == IF ot \in ObjectTypes THEN "" ELSE "invalid object type"

FileModeRegular == "100644"
FileModeExec == "100755"
FileModeDir == "40000"
FileModeSymlink == "120000"
FileModeValidate(fm) ==
    IF fm \in {FileModeRegular, FileModeExec, FileModeDir, FileModeSymlink}
    THEN "" ELSE "invalid file mode"

\* Go compares strings bytewise: a < b.
LexLess(a, b) ==
    \E i \in 1..Len(b) :
        /\ \A j \in 1..(i - 1) : j <= Len(a) /\ a[j] = b[j]
        /\ (i > Len(a) \/ a[i] < b[i])

IsSpace(c) == c \in {9, 10, 11, 12, 13, 32}

RECURSIVE TrimLeft(_)
TrimLeft(s) == IF Len(s) > 0 /\ IsSpace(s[1]) THEN TrimLeft(Tail(s)) ELSE s
RECURSIVE TrimRight(_)
TrimRight(s) ==
    IF Len(s) > 0 /\ IsSpace(s[Len(s)]) THEN TrimRight(SubSeq(s, 1, Len(s) - 1)) ELSE s
\* strings.TrimSpace
TrimSpace(s) == TrimRight(TrimLeft(s))

\* Signature{name, email, when}.  A time.Time is its count of seconds since
\* 1970 (what Unix() returns); the zero instant (January 1, year 1), which
\* lies below every representable count, is ZeroTime.
ZeroTime == 0 - 2147483647
IsZero(when) == when = ZeroTime
ZeroSignature == [name |-> <<>>, email |-> <<>>, when |-> ZeroTime]
SignatureValidate(s) ==
    IF s.name = <<>> THEN "signature name cannot be empty"
    ELSE IF s.email = <<>> THEN "signature email cannot be empty"
    ELSE IF IsZero(s.when) THEN "signature time cannot be zero"
    ELSE ""
NewSignature(name, email, when) ==
    LET s == [name |-> name, email |-> email, when |-> when]
    IN IF SignatureValidate(s) = "" THEN Ok(s) ELSE Fail(SignatureValidate(s), ZeroSignature)
\* time.Time.Unix()
Unix(when) == when

\* -------------------------------------------------------- encoding/json
\* The encoder writes a byte that is not valid UTF-8 (here 255) as the six
\* characters backslash-u-f-f-f-d (here the token -65533); the decoder reads
\* that escape as the character U+FFFD (here 65533), which the encoder
\* writes raw, as three bytes.
EncodeJSONString(s) == [i \in 1..Len(s) |-> IF s[i] = 255 THEN -65533 ELSE s[i]]
DecodeJSONString(t) == [i \in 1..Len(t) |-> IF t[i] = -65533 THEN 65533 ELSE t[i]]
JSONCharLen(c) == IF c = -65533 THEN 6 ELSE IF c = 65533 THEN 3 ELSE 1
RECURSIVE JSONStringLen(_)
\* bytes of the JSON text of an encoded string, quotes included
JSONStringLen(t) ==
    IF Len(t) = 0 THEN 2 ELSE JSONCharLen(t[1]) + JSONStringLen(Tail(t))
RECURSIVE Digits(_)
Digits(n) == IF n < 0 THEN 1 + Digits(-n) ELSE IF n < 10 THEN 1 ELSE 1 + Digits(n \div 10)
\* encoding/json writes only the exported (capitalised) fields of a struct.
IsExported(field) ==
    field \in {"Type", "Entries", "Tree", "Parents", "Author", "Committer", "Message",
               "Timestamp", "Name", "Email", "When", "Object", "ObjType", "Tag", "Tagger",
               "Hash", "Size", "Mode", "Mtime", "Path", "Version"}
MarshalStruct(rec) == [f \in {g \in DOMAIN rec : IsExported(g)} |-> rec[f]]
\* json.Unmarshal into a struct value: members naming exported fields are
\* stored, the other fields keep the zero value.
UnmarshalStruct(json, zero) ==
    [f \in DOMAIN zero |-> IF IsExported(f) /\ f \in DOMAIN json THEN json[f] ELSE zero[f]]

\* ------------------------------------------------------------------- Blob
\* Blob{content, size, hash}; contentNil tells a nil slice from an empty one.
NewBlob(content, isNil) ==
    [kind |-> "blob", content |-> content, contentNil |-> isNil,
     size |-> Len(content), hash |-> NoHash]
BlobSerialize(b) ==
    IF b.size < 0 THEN Fail("invalid blob size", NoData)
    ELSE IF b.contentNil THEN Fail("blob content is nil", NoData)
    ELSE IF b.size # Len(b.content) THEN Fail("size mismatch", NoData)
    ELSE Ok([hdr |-> <<"blob", b.size>>, payload |-> b.content])

\* ------------------------------------------------------------------- Tree
\* TreeEntry{mode, name, hash, objType}: every field is unexported.
ZeroTreeEntry == [mode |-> "", name |-> <<>>, hash |-> NoHash, objType |-> ""]
NewTreeEntry(mode, name, hash, objType) ==
    IF FileModeValidate(mode) # "" THEN Fail("invalid file mode in tree entry", ZeroTreeEntry)
    ELSE IF name = <<>> THEN Fail("tree entry name cannot be empty", ZeroTreeEntry)
    ELSE IF IsEmpty(hash) THEN Fail("tree entry hash cannot be empty", ZeroTreeEntry)
    ELSE IF ObjectTypeValidate(objType) # ""
         THEN Fail("invalid object type in tree entry", ZeroTreeEntry)
    ELSE Ok([mode |-> mode, name |-> name, hash |-> hash, objType |-> objType])

NewTree == [kind |-> "tree", entries |-> <<>>, hash |-> NoHash]

RECURSIVE InsertByName(_, _)
InsertByName(sorted, e) ==
    IF sorted = <<>> THEN <<e>>
    ELSE IF LexLess(e.name, sorted[1].name) THEN <<e>> \o sorted
    ELSE <<sorted[1]>> \o InsertByName(Tail(sorted), e)
RECURSIVE SortedByName(_)
SortedByName(es) ==
    IF es = <<>> THEN <<>>
    ELSE InsertByName(SortedByName(SubSeq(es, 1, Len(es) - 1)), es[Len(es)])
\* AddEntry without its trailing sort
sortEntries_None(es) == es
\* sort.Slice by name.  The callers keep names unique, so the order sort.Slice
\* leaves does not depend on its (unstable) algorithm.
sortEntries(es) == SortedByName(es)

FirstIndex(es, name) ==
    IF \E i \in 1..Len(es) : es[i].name = name
    THEN CHOOSE i \in 1..Len(es) :
            es[i].name = name /\ \A j \in 1..(i - 1) : es[j].name # name
    ELSE 0
AddEntry(t, entry) ==
    LET i == FirstIndex(t.entries, entry.name)
    IN IF i # 0
       THEN [t EXCEPT !.entries = sortEntries([t.entries EXCEPT ![i] = entry])]
       ELSE [t EXCEPT !.entries = sortEntries(Append(t.entries, entry))]
\* the tree after RemoveEntry(name); the call returns whether name was found
RemoveEntry(t, name) ==
    LET i == FirstIndex(t.entries, name)
    IN IF i # 0
       THEN [t EXCEPT !.entries =
                SubSeq(t.entries, 1, i - 1) \o SubSeq(t.entries, i + 1, Len(t.entries))]
       ELSE t
Entries(t) == t.entries

\* {"type":"tree","entries":[{},{}]}: 26 bytes up to "[", 2 for "]}".
TreeJSONLen(json) == 26 + 2 * Len(json.entries) + (Len(json.entries) - 1) + 2
\* a Serialize without the check for an empty tree
TreeSerialize_AllowEmpty(t) ==
    LET json == [type |-> "tree",
                 entries |-> [i \in 1..Len(t.entries) |-> MarshalStruct(t.entries[i])]]
    IN Ok([hdr |-> <<"tree", TreeJSONLen(json)>>, payload |-> json])
TreeSerialize(t) ==
    IF Len(t.entries) = 0 THEN Fail("tree cannot be empty", NoData)
    ELSE LET st == [Type |-> "tree", Entries |-> t.entries]
             json == [type |-> st.Type,
                      entries |-> [i \in 1..Len(st.Entries) |-> MarshalStruct(st.Entries[i])]]
         IN Ok([hdr |-> <<"tree", TreeJSONLen(json)>>, payload |-> json])

RECURSIVE AddAll(_, _)
AddAll(t, es) == IF es = <<>> THEN t ELSE AddAll(AddEntry(t, es[1]), Tail(es))
DeserializeTree(data) ==
    LET json == data.payload
    IN IF json.type # "tree" THEN Fail("invalid object type: expected tree", NewTree)
       ELSE Ok(AddAll(NewTree,
                      [i \in 1..Len(json.entries) |->
                          UnmarshalStruct(json.entries[i], ZeroTreeEntry)]))

\* ----------------------------------------------------------------- Commit
ZeroCommit ==
    [kind |-> "commit", tree |-> NoHash, parents |-> <<>>, author |-> ZeroSignature,
     committer |-> ZeroSignature, message |-> <<>>, hash |-> NoHash]
NewCommit(tree, parents, author, committer, message) ==
    IF IsEmpty(tree) THEN Fail("commit tree cannot be empty", ZeroCommit)
    ELSE IF SignatureValidate(author) # "" THEN Fail("invalid author", ZeroCommit)
    ELSE IF SignatureValidate(committer) # "" THEN Fail("invalid committer", ZeroCommit)
    ELSE IF TrimSpace(message) = <<>> THEN Fail("commit message cannot be empty", ZeroCommit)
    ELSE Ok([kind |-> "commit", tree |-> tree, parents |-> parents, author |-> author,
             committer |-> committer, message |-> TrimSpace(message), hash |-> NoHash])
Parents(c) == c.parents
\* an IsMerge that counts any parent
IsMerge_AnyParent(c) == Len(c.parents) >= 1
IsMerge(c) == Len(c.parents) >= 2
IsRoot(c) == Len(c.parents) = 0

\* signatureJSON{Name, Email, When} and its JSON text
toJSONSignature(s) == [Name |-> s.name, Email |-> s.email, When |-> s.when]
fromJSONSignature(sj) == NewSignature(sj.Name, sj.Email, sj.When)
SignatureJSONText(sj) ==
    [name |-> EncodeJSONString(sj.Name), email |-> EncodeJSONString(sj.Email), when |-> sj.When]
SignatureJSONParse(json) ==
    [Name |-> DecodeJSONString(json.name), Email |-> DecodeJSONString(json.email),
     When |-> json.when]
\* {"name":"..","email":"..","when":"2006-01-02T15:04:05Z"}
SignatureJSONLen(json) ==
    8 + JSONStringLen(json.name) + 9 + JSONStringLen(json.email) + 8 + 22 + 1
RECURSIVE HashListLen(_)
HashListLen(hs) ==
    IF Len(hs) = 0 THEN 0
    ELSE (2 + hs[1].len) + (IF Len(hs) > 1 THEN 1 ELSE 0) + HashListLen(Tail(hs))
CommitJSONLen(json) ==
    24 + (2 + json.tree.len)
    + (IF "parents" \in DOMAIN json THEN 12 + HashListLen(json.parents) + 1 ELSE 0)
    + 10 + SignatureJSONLen(json.author) + 13 + SignatureJSONLen(json.committer)
    + 11 + JSONStringLen(json.message) + 13 + Digits(json.timestamp) + 1
\* time.Time.MarshalJSON fails for an instant whose year is outside
\* [0,9999].  The top of the counted range stands for the instants of the
\* year 10000 and later, as ZeroTime stands for year 1.
YearTenThousand == 2147483647
TimeMarshalFails(when) == when >= YearTenThousand
CommitSerialize(c) ==
    LET cj == [Type |-> "commit", Tree |-> c.tree, Parents |-> c.parents,
               Author |-> toJSONSignature(c.author),
               Committer |-> toJSONSignature(c.committer),
               Message |-> c.message, Timestamp |-> Unix(c.author.when)]
        head == [type |-> cj.Type, tree |-> cj.Tree]
        rest == [author |-> SignatureJSONText(cj.Author),
                 committer |-> SignatureJSONText(cj.Committer),
                 message |-> EncodeJSONString(cj.Message), timestamp |-> cj.Timestamp]
        \* `json:"parents,omitempty"`: the member is left out when empty
        json == IF Len(cj.Parents) = 0 THEN head @@ rest
                ELSE head @@ [parents |-> cj.Parents] @@ rest
    IN IF TimeMarshalFails(cj.Author.When) \/ TimeMarshalFails(cj.Committer.When)
       THEN Fail("failed to serialize commit", NoData)
       ELSE Ok([hdr |-> <<"commit", CommitJSONLen(json)>>, payload |-> json])
DeserializeCommit(data) ==
    LET json == data.payload
        cj == [Type |-> json.type, Tree |-> json.tree,
               Parents |-> IF "parents" \in DOMAIN json THEN json.parents ELSE <<>>,
               Author |-> SignatureJSONParse(json.author),
               Committer |-> SignatureJSONParse(json.committer),
               Message |-> DecodeJSONString(json.message), Timestamp |-> json.timestamp]
        author == fromJSONSignature(cj.Author)
        committer == fromJSONSignature(cj.Committer)
    IN IF cj.Type # "commit" THEN Fail("invalid object type: expected commit", ZeroCommit)
       ELSE IF author.err # "" THEN Fail("invalid author signature", ZeroCommit)
       ELSE IF committer.err # "" THEN Fail("invalid committer signature", ZeroCommit)
       ELSE LET commit == NewCommit(cj.Tree, cj.Parents, author.val, committer.val, cj.Message)
            IN IF commit.err # ""
               THEN Fail("deserialized commit validation failed", ZeroCommit)
               ELSE commit

\* -------------------------------------------------------------------- Tag
ZeroTag ==
    [kind |-> "tag", object |-> NoHash, objType |-> "", tagName |-> <<>>,
     tagger |-> ZeroSignature, message |-> <<>>, hash |-> NoHash]
NewTag(object, objType, tagName, tagger, message) ==
    IF IsEmpty(object) THEN Fail("tag object cannot be empty", ZeroTag)
    ELSE IF ObjectTypeValidate(objType) # "" THEN Fail("invalid object type", ZeroTag)
    ELSE IF tagName = <<>> THEN Fail("tag name cannot be empty", ZeroTag)
    ELSE IF SignatureValidate(tagger) # "" THEN Fail("invalid tagger signature", ZeroTag)
    ELSE Ok([kind |-> "tag", object |-> object, objType |-> objType, tagName |-> tagName,
             tagger |-> tagger, message |-> message, hash |-> NoHash])
\* {"type":"tag","object":"..","objType":"..","tag":"..","tagger":{},"message":".."}
TagJSONLen(json) ==
    23 + (2 + json.object.len) + 11
    + (CASE json.objType = "commit" -> 8 [] json.objType = "tag" -> 5 [] OTHER -> 6)
    + 7 + JSONStringLen(json.tag) + 10 + 2 + 11 + JSONStringLen(json.message) + 1
TagSerialize(t) ==
    LET st == [Type |-> "tag", Object |-> t.object, ObjType |-> t.objType,
               Tag |-> t.tagName, Tagger |-> t.tagger, Message |-> t.message]
        json == [type |-> st.Type, object |-> st.Object, objType |-> st.ObjType,
                 tag |-> EncodeJSONString(st.Tag), tagger |-> MarshalStruct(st.Tagger),
                 message |-> EncodeJSONString(st.Message)]
    IN Ok([hdr |-> <<"tag", TagJSONLen(json)>>, payload |-> json])

\* ------------------------------------------- Serializable and Hashable
\* obj.Serialize() and obj.Type(), dispatched on the dynamic type
Serialize(obj) ==
    CASE obj.kind = "blob" -> BlobSerialize(obj)
      [] obj.kind = "tree" -> TreeSerialize(obj)
      [] obj.kind = "commit" -> CommitSerialize(obj)
      [] obj.kind = "tag" -> TagSerialize(obj)
Type(obj) == obj.kind
\* the exported methods each type declares
MethodSet(kind) ==
    CASE kind = "blob" -> {"Content", "Size", "GetHash", "SetHash", "Type", "Serialize"}
      [] kind = "tree" -> {"AddEntry", "RemoveEntry", "GetEntry", "Entries", "Hash",
                           "SetHash", "Type", "Serialize"}
      [] kind = "commit" -> {"Tree", "Parents", "Author", "Committer", "Message", "IsMerge",
                             "IsRoot", "Hash", "SetHash", "Type", "Serialize"}
      [] kind = "tag" -> {"Object", "ObjectType", "TagName", "Tagger", "Message", "Hash",
                          "SetHash", "Type", "Serialize"}
      [] OTHER -> {}
Hashable == {"SetHash", "GetHash"}
\* the type assertion obj.(objects.Hashable)
IsHashable(obj) == Hashable \subseteq MethodSet(obj.kind)
SetHash(obj, h) == [obj EXCEPT !.hash = h]
\* the hash an object stores, read through whichever getter its type has
StoredHash(obj) == obj.hash

\* ------------------------------------------------------------- compression
\* A stored file holds a Zstd frame or, once overwritten, any bytes at all.
\* A frame is [magic |-> TRUE, enc, body]: body is what it decompresses to
\* and enc tells apart the different frames with the same body (enc 0 is the
\* frame the encoder emits).  Bytes that are no frame have magic FALSE.
CompressZstd(data) == [body |-> data, enc |-> 0, magic |-> TRUE]
NoBytes == [body |-> NoData, enc |-> 0, magic |-> FALSE]
DecompressZstd(bytes) ==
    IF bytes.magic THEN Ok(bytes.body) ELSE Fail("invalid input: magic number mismatch", NoData)

\* ------------------------------------------------------------ ObjectStore
\* a digest of the header's type word only
calculateHash_OfType(data) == [len |-> HashHexLen, of |-> [hdr |-> <<data.hdr[1], 0>>, payload |-> <<>>]]
calculateHash(data) == [len |-> HashHexLen, of |-> data]
\* objects/<h[:2]>/<h[2:]>
NoPath == [dir |-> NoHash, file |-> NoHash]
hashToPath(h) ==
    IF h.len < 2 THEN Fail("hash too short", NoPath)
    ELSE Ok([dir |-> [len |-> 2, of |-> h.of], file |-> [len |-> h.len - 2, of |-> h.of]])

\* the header "<type> <size>" before the first NUL byte
detectObjectType(data) ==
    IF data.hdr[1] = "" THEN Fail("failed to parse object header", "")
    ELSE IF ObjectTypeValidate(data.hdr[1]) # "" THEN Fail("invalid object type in header", "")
    ELSE Ok(data.hdr[1])
NoObject == [kind |-> "", hash |-> NoHash]
\* a dispatch that returns a tag for tag data
deserializeByType_WithTag(objType, data) ==
    CASE objType = "blob" -> Ok(NewBlob(data.payload, FALSE))
      [] objType = "tree" ->
            LET r == DeserializeTree(data) IN IF r.err # "" THEN Fail(r.err, NoObject) ELSE r
      [] objType = "commit" ->
            LET r == DeserializeCommit(data) IN IF r.err # "" THEN Fail(r.err, NoObject) ELSE r
      [] objType = "tag" -> Ok(ZeroTag)
      [] OTHER -> Fail("unsupported object type", NoObject)
deserializeByType(objType, data) ==
    CASE objType = "blob" -> Ok(NewBlob(data.payload, FALSE))
      [] objType = "tree" ->
            LET r == DeserializeTree(data) IN IF r.err # "" THEN Fail(r.err, NoObject) ELSE r
      [] objType = "commit" ->
            LET r == DeserializeCommit(data) IN IF r.err # "" THEN Fail(r.err, NoObject) ELSE r
      [] objType = "tag" -> Fail("tag deserialization not implemented yet", NoObject)
      [] OTHER -> Fail("unsupported object type", NoObject)

\* The store's directory is the set `dirs` of fan-out directories and the
\* function `files` from object path to stored bytes.
FileExists(fs, path) == path \in DOMAIN fs
\* a write that truncates a file already there and stops
WriteFileAtomic_Truncate(fs, path, data) ==
    [p \in DOMAIN fs \cup {path} |-> IF p # path THEN fs[p] ELSE IF path \in DOMAIN fs THEN NoBytes ELSE data]
\* utils.WriteFileAtomic run to its end: temp file, write, close, rename.
WriteFileAtomic(fs, path, data) == [p \in DOMAIN fs \cup {path} |-> IF p = path THEN data ELSE fs[p]]

\* a WriteObject that assigns the hash before it writes the file
WriteObject_HashFirst(obj, dirs, files, io) ==
    LET data == Serialize(obj)
        hash == calculateHash(data.val)
        objectPath == hashToPath(hash)
        hashed == IF IsHashable(obj) THEN SetHash(obj, hash) ELSE obj
    IN IF data.err # ""
       THEN [hash |-> NoHash, err |-> "failed to serialize object", obj |-> obj,
             dirs |-> dirs, files |-> files]
       ELSE IF io # ""
            THEN [hash |-> NoHash, err |-> "failed to write object file", obj |-> hashed,
                  dirs |-> dirs, files |-> files]
       ELSE [hash |-> hash, err |-> "", obj |-> hashed,
             dirs |-> dirs \cup {objectPath.val.dir},
             files |-> WriteFileAtomic(files, objectPath.val, CompressZstd(data.val))]
\* WriteObject(obj) on the store <<dirs, files>>.  io names the step the
\* operating system fails, if any: "mkdir" (MkdirAll) or "write" (a step of
\* WriteFileAtomic).  The result is the returned hash and error, the object
\* after the call, and the store after the call.
WriteObject(obj, dirs, files, io) ==
    LET data == Serialize(obj)
        hash == calculateHash(data.val)
        objectPath == hashToPath(hash)
        dir == objectPath.val.dir
        compressedData == CompressZstd(data.val)
        failed(msg) == [hash |-> NoHash, err |-> msg, obj |-> obj, dirs |-> dirs, files |-> files]
    IN IF data.err # "" THEN failed("failed to serialize object")
       ELSE IF objectPath.err # "" THEN failed("failed to create object path")
       ELSE IF dir \notin dirs /\ io = "mkdir" THEN failed("failed to create object directory")
       ELSE IF io = "write"
            THEN [failed("failed to write object file") EXCEPT !.dirs = dirs \cup {dir}]
       ELSE [hash |-> hash, err |-> "",
             obj |-> IF IsHashable(obj) THEN SetHash(obj, hash) ELSE obj,
             dirs |-> dirs \cup {dir},
             files |-> WriteFileAtomic(files, objectPath.val, compressedData)]

\* ReadObject(hash): the returned object and error
ReadObject(hash, files) ==
    LET objectPath == hashToPath(hash)
        compressedData == files[objectPath.val]
        data == DecompressZstd(compressedData)
        calculatedHash == calculateHash(data.val)
        objType == detectObjectType(data.val)
        obj == deserializeByType(objType.val, data.val)
    IN IF IsEmpty(hash) THEN Fail("hash cannot be empty", NoObject)
       ELSE IF objectPath.err # "" THEN Fail("failed to create object path", NoObject)
       ELSE IF ~FileExists(files, objectPath.val) THEN Fail("failed to read object file", NoObject)
       ELSE IF data.err # "" THEN Fail("failed to decompress object", NoObject)
       ELSE IF calculatedHash # hash THEN Fail("object integrity check failed", NoObject)
       ELSE IF objType.err # "" THEN Fail("failed to detect object type", NoObject)
       ELSE IF obj.err # "" THEN Fail("failed to deserialize object", NoObject)
       ELSE Ok(IF IsHashable(obj.val) THEN SetHash(obj.val, hash) ELSE obj.val)

\* os.Stat finds directories too, and the path of a two-character hash is
\* its fan-out directory: filepath.Join drops the empty file name.
ObjectExists(hash, dirs, files) ==
    IF hashToPath(hash).err # "" THEN FALSE
    ELSE IF hashToPath(hash).val.file.len = 0 THEN hashToPath(hash).val.dir \in dirs
    ELSE FileExists(files, hashToPath(hash).val)

\* ======================================================== the state
VARIABLES
    tree,       \* the Tree a caller is building with AddEntry and RemoveEntry
    call,       \* the most recent call on `tree`, the index or a pure function
    index,      \* the Index a caller holds in memory
    dirs,       \* the fan-out directories that exist under .sib/objects
    files,      \* object path -> the bytes stored there
    ret,        \* the most recent call on the store and what it returned
    log,        \* every successful WriteObject: [obj, data, hash]
    disk,       \* step level: path -> the content of the file it names
    procs,      \* step level: each writer's position in WriteObject or Save
    reader,     \* step level: the reader's position in os.ReadFile
    ncrash      \* the number of crashes so far
callVars == <<tree, call, index, files, ret, log>>
osVars == <<disk, procs, reader, ncrash>>
vars == <<tree, call, index, dirs, files, ret, log, disk, procs, reader, ncrash>>

NoCall == [op |-> "", entry |-> ZeroTreeEntry, name |-> <<>>, found |-> FALSE]
NoRet ==
    [op |-> "", hash |-> NoHash, err |-> "", obj |-> NoObject, data |-> NoData,
     bytes |-> NoBytes]

\* ------------------------------------------------- the callers' inputs
BlobContents == {<<>>, <<104, 0>>}
SigAuthor == NewSignature(<<97>>, <<97, 64>>, 1700000000).val
SigCommitter == NewSignature(<<99>>, <<99, 64>>, 1700000060).val
DataOf(obj) == Serialize(obj).val
HashOf(obj) == calculateHash(DataOf(obj))
BlobHash == HashOf(NewBlob(<<104, 0>>, FALSE))
EntryA == NewTreeEntry(FileModeRegular, <<97>>, BlobHash, "blob").val
EntryA2 == NewTreeEntry(FileModeExec, <<97>>, BlobHash, "blob").val
EntryB == NewTreeEntry(FileModeRegular, <<98>>, BlobHash, "blob").val
EntrySrc == NewTreeEntry(FileModeDir, <<115, 114, 99>>, BlobHash, "tree").val
\* the entry sequences callers pass to AddEntry, one call each, in this order
TreeInputs == {<<>>, <<EntrySrc, EntryA>>, <<EntryB, EntryA2>>}
Trees == {AddAll(NewTree, es) : es \in TreeInputs}
TreeHash == HashOf(AddAll(NewTree, <<EntryB>>))
Commit1 == NewCommit(TreeHash, <<>>, SigAuthor, SigCommitter, <<32, 109, 10>>).val
Tag1 == NewTag(HashOf(Commit1), "commit", <<118, 49>>, SigAuthor, <<>>).val
Blobs == {NewBlob(c, FALSE) : c \in BlobContents} \cup {NewBlob(<<>>, TRUE)}
StoreInputs == Blobs \cup Trees \cup {Commit1, Tag1}
\* the hashes callers ask for: the digests of the inputs, the empty hash, a
\* one-character hash and the digest of an object that is never written
HashesOf(objs) ==
    {HashOf(o) : o \in {x \in objs : Serialize(x).err = ""}}
    \cup {NoHash, [len |-> 1, of |-> DataOf(Commit1)], HashOf(NewBlob(<<120>>, FALSE))}

\* ==================================================== the index file
\* IndexEntry: the exported fields go to JSON, the service fields do not.
IndexEntry(hash, size, mode, mtime, path) ==
    [Hash |-> hash, Size |-> size, Mode |-> mode, Mtime |-> mtime, Path |-> path,
     ctime |-> mtime, validated |-> TRUE, stage |-> 0]
\* the Index NewIndex builds when there is no index file.  nilMap tells a
\* nil Entries map (no key can be stored in it) from an empty one.
EmptyIndex == [Version |-> 1, Entries |-> <<>>, nilMap |-> FALSE]
\* A time.Time is its instant (Unix seconds) and whether it carries a
\* monotonic clock reading, as time.Now() does.  Its JSON text is the
\* RFC 3339 instant; the reading is not written.
Time(sec, mono) == [sec |-> sec, mono |-> mono]
MarshalTime(t) == t.sec
UnmarshalTime(text) == Time(text, FALSE)
\* time.Time.Equal
TimeEqual(t, u) == t.sec = u.sec
\* json.Marshal of an IndexEntry: the exported fields, strings escaped
MarshalEntry(e) ==
    [MarshalStruct(e) EXCEPT !.Hash = EncodeJSONString(@), !.Path = EncodeJSONString(@),
                             !.Mtime = MarshalTime(@)]
\* json.MarshalIndent(idx) in Save: the members "version" and "entries", the
\* entries by key in ascending order (a function has no other order)
IndexJSON(idx) ==
    [version |-> idx.Version,
     entries |-> [k \in {EncodeJSONString(j) : j \in DOMAIN idx.Entries} |->
                    MarshalEntry(idx.Entries[CHOOSE j \in DOMAIN idx.Entries :
                                                EncodeJSONString(j) = k])]]
IndexPath == [name |-> "index"]
\* tmpPath := idx.path + ".tmp"
tmpPath_InPlace(path) == path
tmpPath(path) == [name |-> path.name \o ".tmp"]
\* the Index each process holds in memory when it calls Save
IndexOf(p) ==
    [Version |-> 1,
     Entries |-> [k \in {<<96 + p>>} |->
                    IndexEntry(<<104>>, 2, "100644", Time(1700000000 + p, FALSE), k)],
     nilMap |-> FALSE]

\* ================================================= files, step by step
\* A Write of n bytes may reach the file in up to WriteParts partial writes;
\* a file's content is the sequence of the parts written so far.
WriteParts == 2
MaxCrashes == 2
Procs == {1, 2}
Parts(bytes) == [k \in 1..WriteParts |-> [of |-> bytes, part |-> k]]
Hole == [of |-> NoBytes, part |-> 0]
\* pwrite of one part at position k: a gap before it reads as zero bytes
WriteAt(content, k, piece) ==
    [i \in 1..(IF Len(content) > k THEN Len(content) ELSE k) |->
        IF i = k THEN piece ELSE IF i <= Len(content) THEN content[i] ELSE Hole]
NoOsPath == [name |-> ""]
\* An open descriptor follows its file, not its name.  st is "named" while
\* the file has the name `at`; once the file has lost its name (renamed
\* over, or removed) st is "shared" for a writer whose file the reader also
\* holds open, and "orphan" otherwise.
NoFd == [st |-> "closed", at |-> NoOsPath]
NamedFd(path) == [st |-> "named", at |-> path]
\* a process between calls; what the last call returned is not kept
IdleProc ==
    [pc |-> "idle", op |-> "", path |-> NoOsPath, tmp |-> NoOsPath, fd |-> NoFd, off |-> 0,
     data |-> NoBytes]
\* the reader; `orphan` is the content of its file once that has no name
IdleReader == [pc |-> "idle", path |-> NoOsPath, fd |-> NoFd, buf |-> <<>>, orphan |-> <<>>]
IsObjectPath(path) == "file" \in DOMAIN path
\* open(path, O_CREATE|O_TRUNC): the file path names, emptied, or a new one
OpenFile(dk, path) == [q \in DOMAIN dk \cup {path} |-> IF q = path THEN <<>> ELSE dk[q]]
\* the descriptors after the file named path has lost that name
UnnameProcs(ps, rd, path) ==
    [p \in Procs |->
        IF ps[p].fd = NamedFd(path)
        THEN [ps[p] EXCEPT !.fd = [st |-> IF rd.fd = NamedFd(path) THEN "shared" ELSE "orphan",
                                    at |-> NoOsPath]]
        ELSE ps[p]]
UnnameReader(rd, dk, path) ==
    IF rd.fd = NamedFd(path)
    THEN [rd EXCEPT !.fd = [st |-> "orphan", at |-> NoOsPath], !.orphan = dk[path]]
    ELSE rd
\* the descriptors after the file named from has been given the name to
MoveProcs(ps, from, to) ==
    [p \in Procs |-> IF ps[p].fd = NamedFd(from) THEN [ps[p] EXCEPT !.fd = NamedFd(to)] ELSE ps[p]]
MoveReader(rd, from, to) == IF rd.fd = NamedFd(from) THEN [rd EXCEPT !.fd = NamedFd(to)] ELSE rd
\* the temp name every writer opens, were the name not random
TempName_Fixed(dir, taken) == [dir |-> dir, tmp |-> 1]
\* os.CreateTemp(dir, "tmp-"): O_EXCL and a random suffix give a name no file has
TempName(dir, taken) ==
    [dir |-> dir,
     tmp |-> CHOOSE k \in 1..(Cardinality(taken) + 1) : [dir |-> dir, tmp |-> k] \notin taken]
\* os.Remove(path) and os.Rename(from, to) on the names
Remove(dk, path) == [q \in DOMAIN dk \ {path} |-> dk[q]]
Rename(dk, from, to) ==
    [q \in (DOMAIN dk \ {from}) \cup {to} |-> IF q = to THEN dk[from] ELSE dk[q]]

\* WriteObject up to the call of WriteFileAtomic: Serialize, calculateHash,
\* hashToPath, CreateDirIfNotExists, CompressZstd
BeginWrite(p, obj) ==
    /\ procs[p].pc = "idle"
    /\ Serialize(obj).err = ""
    /\ LET hash == calculateHash(DataOf(obj))
           objectPath == hashToPath(hash).val
       IN /\ dirs' = dirs \cup {objectPath.dir}
          /\ procs' = [procs EXCEPT ![p] =
                [pc |-> "create", op |-> "WriteObject", path |-> objectPath, tmp |-> NoOsPath,
                 fd |-> NoFd, off |-> 0, data |-> CompressZstd(DataOf(obj))]]
    /\ UNCHANGED <<callVars, disk, reader, ncrash>>
\* WriteFileAtomic: os.CreateTemp(dir, "tmp-")
CreateTemp(p) ==
    /\ procs[p].pc = "create"
    /\ LET tmp == TempName(procs[p].path.dir, DOMAIN disk)
       IN /\ disk' = OpenFile(disk, tmp)
          /\ procs' = [procs EXCEPT ![p].pc = "write", ![p].tmp = tmp, ![p].fd = NamedFd(tmp)]
    /\ UNCHANGED <<callVars, dirs, reader, ncrash>>
\* Save up to os.WriteFile: the sorted map and json.MarshalIndent
BeginSave(p) ==
    /\ procs[p].pc = "idle"
    /\ procs' = [procs EXCEPT ![p] =
          [pc |-> "open", op |-> "Save", path |-> IndexPath, tmp |-> tmpPath(IndexPath),
           fd |-> NoFd, off |-> 0, data |-> IndexJSON(IndexOf(p))]]
    /\ UNCHANGED <<callVars, dirs, disk, reader, ncrash>>
\* os.WriteFile: OpenFile(tmpPath, O_WRONLY|O_CREATE|O_TRUNC)
OpenTrunc(p) ==
    /\ procs[p].pc = "open"
    /\ disk' = OpenFile(disk, procs[p].tmp)
    /\ procs' = [procs EXCEPT ![p].pc = "write", ![p].fd = NamedFd(procs[p].tmp)]
    /\ UNCHANGED <<callVars, dirs, reader, ncrash>>
\* one partial write of tmpFile.Write(data) or of os.WriteFile, into the
\* file the descriptor holds, whatever its name is by now
WritePart(p) ==
    /\ procs[p].pc = "write"
    /\ LET k == procs[p].off + 1
           piece == Parts(procs[p].data)[k]
       IN /\ disk' = IF procs[p].fd.st = "named"
                     THEN [disk EXCEPT ![procs[p].fd.at] = WriteAt(@, k, piece)]
                     ELSE disk
          /\ reader' = IF procs[p].fd.st = "shared"
                       THEN [reader EXCEPT !.orphan = WriteAt(@, k, piece)]
                       ELSE reader
          /\ procs' = [procs EXCEPT ![p].off = k,
                                    ![p].pc = IF k = WriteParts THEN "close" ELSE "write"]
    /\ UNCHANGED <<callVars, dirs, ncrash>>
\* tmpFile.Close(), or the Close that ends os.WriteFile
Close(p) ==
    /\ procs[p].pc = "close"
    /\ procs' = [procs EXCEPT ![p].pc = "rename", ![p].fd = NoFd]
    /\ UNCHANGED <<callVars, dirs, disk, reader, ncrash>>
\* os.Rename(tmpPath, path) and the return; with no file at tmpPath the
\* rename fails, os.Remove(tmpPath) finds nothing and the call returns the error
DoRename(p) ==
    /\ procs[p].pc = "rename"
    /\ LET from == procs[p].tmp
           to == procs[p].path
           done == [procs EXCEPT ![p] = IdleProc]
       IN IF from \notin DOMAIN disk
          THEN /\ procs' = done
               /\ UNCHANGED <<disk, reader>>
          ELSE IF from = to
          THEN /\ procs' = done
               /\ UNCHANGED <<disk, reader>>
          ELSE /\ disk' = Rename(disk, from, to)
               /\ procs' = MoveProcs(IF to \in DOMAIN disk THEN UnnameProcs(done, reader, to)
                                     ELSE done, from, to)
               /\ reader' = MoveReader(IF to \in DOMAIN disk THEN UnnameReader(reader, disk, to)
                                       ELSE reader, from, to)
    /\ UNCHANGED <<callVars, dirs, ncrash>>
\* a step the operating system fails.  WriteFileAtomic closes and removes
\* its temp file once it has one; Save removes tmpPath after a failed rename
\* only, a failed os.WriteFile leaves the file behind.
IOFail(p) ==
    /\ procs[p].pc \in {"create", "open", "write", "close", "rename"}
    /\ LET removes == \/ procs[p].op = "WriteObject" /\ procs[p].pc \in {"write", "close", "rename"}
                      \/ procs[p].op = "Save" /\ procs[p].pc = "rename"
           tmp == procs[p].tmp
           done == [procs EXCEPT ![p] = IdleProc]
       IN IF removes /\ tmp \in DOMAIN disk
          THEN /\ disk' = Remove(disk, tmp)
               /\ procs' = UnnameProcs(done, reader, tmp)
               /\ reader' = UnnameReader(reader, disk, tmp)
          ELSE /\ procs' = done
               /\ UNCHANGED <<disk, reader>>
    /\ UNCHANGED <<callVars, dirs, ncrash>>
\* the process dies where it stands: its descriptor closes, nothing is removed
Crash(p) ==
    /\ procs[p].pc # "idle"
    /\ ncrash < MaxCrashes
    /\ ncrash' = ncrash + 1
    /\ procs' = [procs EXCEPT ![p] = IdleProc]
    /\ UNCHANGED <<callVars, dirs, disk, reader>>
\* os.ReadFile / utils.ReadFile: os.Open(path)
ReadOpen(path) ==
    /\ reader.pc \in {"idle", "done"}
    /\ path \in DOMAIN disk
    /\ reader' = [pc |-> "read", path |-> path, fd |-> NamedFd(path), buf |-> <<>>, orphan |-> <<>>]
    /\ UNCHANGED <<callVars, dirs, disk, procs, ncrash>>
\* one read of io.ReadAll, or the end of file and the Close
ReadPart ==
    /\ reader.pc = "read"
    /\ LET content == IF reader.fd.st = "named" THEN disk[reader.fd.at] ELSE reader.orphan
       IN IF Len(reader.buf) < Len(content)
          THEN /\ reader' = [reader EXCEPT !.buf = Append(@, content[Len(@) + 1])]
               /\ procs' = procs
          ELSE /\ reader' = [reader EXCEPT !.pc = "done", !.fd = NoFd, !.orphan = <<>>]
               /\ procs' = [p \in Procs |->
                              IF procs[p].fd.st = "shared"
                              THEN [procs[p] EXCEPT !.fd.st = "orphan"] ELSE procs[p]]
    /\ UNCHANGED <<callVars, dirs, disk, ncrash>>

InitOs ==
    /\ tree = NewTree
    /\ call = NoCall
    /\ index = EmptyIndex
    /\ dirs = {}
    /\ files = <<>>
    /\ ret = NoRet
    /\ log = {}
    /\ disk = <<>>
    /\ procs = [p \in Procs |-> IdleProc]
    /\ reader = IdleReader
    /\ ncrash = 0
\* the repository after NewIndex: the index file holds the empty index
InitRepo ==
    /\ tree = NewTree
    /\ call = NoCall
    /\ index = EmptyIndex
    /\ dirs = {}
    /\ files = <<>>
    /\ ret = NoRet
    /\ log = {}
    /\ disk = [q \in {IndexPath} |-> Parts(IndexJSON(EmptyIndex))]
    /\ procs = [p \in Procs |-> IdleProc]
    /\ reader = IdleReader
    /\ ncrash = 0
WriteInputs == {NewBlob(c, FALSE) : c \in BlobContents}
\* one process writing objects and saving its index, dying at any step
NextCrash ==
    \/ \E obj \in WriteInputs : BeginWrite(1, obj)
    \/ CreateTemp(1)
    \/ BeginSave(1)
    \/ OpenTrunc(1)
    \/ WritePart(1)
    \/ Close(1)
    \/ DoRename(1)
    \/ IOFail(1)
    \/ Crash(1)
SpecCrash == InitRepo /\ [][NextCrash]_vars
\* two processes writing objects to one store, and a reader
NextConcStore ==
    \/ \E p \in Procs : \E obj \in WriteInputs : BeginWrite(p, obj)
    \/ \E p \in Procs : CreateTemp(p)
    \/ \E p \in Procs : WritePart(p)
    \/ \E p \in Procs : Close(p)
    \/ \E p \in Procs : DoRename(p)
    \/ \E p \in Procs : IOFail(p)
    \/ \E path \in {q \in DOMAIN disk : IsObjectPath(q)} : ReadOpen(path)
    \/ ReadPart
SpecConcStore == InitOs /\ [][NextConcStore]_vars
\* two Index instances saving to one repository, and a reader
NextConcIndex ==
    \/ \E p \in Procs : BeginSave(p)
    \/ \E p \in Procs : OpenTrunc(p)
    \/ \E p \in Procs : WritePart(p)
    \/ \E p \in Procs : Close(p)
    \/ \E p \in Procs : DoRename(p)
    \/ ReadOpen(IndexPath)
    \/ ReadPart
SpecConcIndex == InitRepo /\ [][NextConcIndex]_vars

\* ====================================================== the object store
InitStore ==
    /\ tree = NewTree
    /\ call = NoCall
    /\ index = EmptyIndex
    /\ dirs = {}
    /\ files = <<>>
    /\ ret = NoRet
    /\ log = {}
    /\ disk = <<>>
    /\ procs = [p \in Procs |-> IdleProc]
    /\ reader = IdleReader
    /\ ncrash = 0

\* store.WriteObject(obj)
DoWriteObject(obj, io) ==
    LET r == WriteObject(obj, dirs, files, io)
    IN /\ dirs' = r.dirs
       /\ files' = r.files
       /\ ret' = [op |-> "write", hash |-> r.hash, err |-> r.err, obj |-> r.obj,
                  data |-> IF Serialize(obj).err = "" THEN DataOf(obj) ELSE NoData,
                  bytes |-> NoBytes]
       /\ IF r.err = ""
          THEN log' = log \cup {[obj |-> obj, data |-> DataOf(obj), hash |-> r.hash]}
          ELSE UNCHANGED log
       /\ UNCHANGED <<tree, call, index, osVars>>

\* store.ReadObject(hash)
DoReadObject(hash) ==
    LET r == ReadObject(hash, files)
        path == hashToPath(hash)
    IN /\ ret' = [op |-> "read", hash |-> hash, err |-> r.err, obj |-> r.val,
                  data |-> NoData,
                  bytes |-> IF path.err = "" /\ FileExists(files, path.val)
                            THEN files[path.val] ELSE NoBytes]
       /\ UNCHANGED <<tree, call, index, dirs, files, log, osVars>>

\* the caller writes the object the last call handed back
WriteAgain == ret.op # "" /\ ret.err = "" /\ DoWriteObject(ret.obj, "")
NextStore ==
    \/ \E obj \in StoreInputs : DoWriteObject(obj, "")
    \/ WriteAgain
    \/ \E hash \in HashesOf(StoreInputs) : DoReadObject(hash)
SpecStore == InitStore /\ [][NextStore]_vars

\* ------------------------------------------- the store on a damaged disk
\* The environment overwrites a stored object file: with bytes that are no
\* Zstd frame, with another frame of the same data, or with a frame of other
\* data (os.WriteFile in TestIntegrityCheck).
OtherData(data) ==
    IF data = DataOf(NewBlob(<<>>, FALSE)) THEN DataOf(NewBlob(<<120>>, FALSE))
    ELSE DataOf(NewBlob(<<>>, FALSE))
CorruptBytes(path) ==
    {NoBytes,
     [body |-> path.file.of, enc |-> 1, magic |-> TRUE],
     [body |-> OtherData(path.file.of), enc |-> 0, magic |-> TRUE]}
Corrupt(path, bytes) ==
    /\ path \in DOMAIN files
    /\ bytes # files[path]
    /\ files' = [files EXCEPT ![path] = bytes]
    /\ UNCHANGED <<tree, call, index, dirs, ret, log, osVars>>
IntegrityInputs == {NewBlob(c, FALSE) : c \in BlobContents} \cup {AddAll(NewTree, <<EntryB>>)}
NextIntegrity ==
    \/ \E obj \in IntegrityInputs : DoWriteObject(obj, "")
    \/ \E hash \in HashesOf(IntegrityInputs) : DoReadObject(hash)
    \/ \E path \in DOMAIN files : \E bytes \in CorruptBytes(path) : Corrupt(path, bytes)
SpecIntegrity == InitStore /\ [][NextIntegrity]_vars

\* ============================================================== the tree
InitTree ==
    /\ tree = NewTree
    /\ call = NoCall
    /\ index = EmptyIndex
    /\ dirs = {}
    /\ files = <<>>
    /\ ret = NoRet
    /\ log = {}
    /\ disk = <<>>
    /\ procs = [p \in Procs |-> IdleProc]
    /\ reader = IdleReader
    /\ ncrash = 0
\* AddEntry does not validate its argument, so the zero TreeEntry is an input
EntryInputs == {EntryA, EntryA2, EntryB, EntrySrc, ZeroTreeEntry}
NameInputs == {e.name : e \in EntryInputs} \cup {<<97, 98>>}
DoAddEntry(entry) ==
    /\ Len(tree.entries) < MaxEntries \/ FirstIndex(tree.entries, entry.name) # 0
    /\ tree' = AddEntry(tree, entry)
    /\ call' = [op |-> "AddEntry", entry |-> entry, name |-> entry.name,
                found |-> FirstIndex(tree.entries, entry.name) # 0]
    /\ UNCHANGED <<index, dirs, files, ret, log, osVars>>
DoRemoveEntry(name) ==
    /\ tree' = RemoveEntry(tree, name)
    /\ call' = [op |-> "RemoveEntry", entry |-> ZeroTreeEntry, name |-> name,
                found |-> FirstIndex(tree.entries, name) # 0]
    /\ UNCHANGED <<index, dirs, files, ret, log, osVars>>
NextTree ==
    \/ \E entry \in EntryInputs : DoAddEntry(entry)
    \/ \E name \in NameInputs : DoRemoveEntry(name)
SpecTree == InitTree /\ [][NextTree]_vars

\* ======================================================== the properties
\* C1: for every blob, tree or commit that WriteObject accepted, ReadObject
\* of the returned hash succeeds and returns an object of the same kind
\* whose Serialize() output is byte-identical to the written object's.
C1_RoundTrip ==
    \A l \in log :
        (ret.op = "read" /\ ret.hash = l.hash /\ Type(l.obj) \in {"blob", "tree", "commit"})
        => /\ ret.err = ""
           /\ Type(ret.obj) = Type(l.obj)
           /\ Serialize(ret.obj).err = ""
           /\ DataOf(ret.obj) = l.data

\* C2: for every tree T built by AddEntry from N entries with distinct
\* names, ReadObject of the hash WriteObject(T) returned gives a tree with
\* exactly N entries, ascending by name, each with the name, mode, hash and
\* kind of the corresponding entry of T.
C2_TreeRoundTrip ==
    \A l \in log :
        (ret.op = "read" /\ ret.hash = l.hash /\ Type(l.obj) = "tree")
        => /\ ret.err = ""
           /\ Type(ret.obj) = "tree"
           /\ Len(Entries(ret.obj)) = Len(Entries(l.obj))
           /\ \A i \in 1..Len(Entries(ret.obj)) :
                /\ i > 1 => LexLess(Entries(ret.obj)[i - 1].name, Entries(ret.obj)[i].name)
                /\ Entries(ret.obj)[i].name = Entries(l.obj)[i].name
                /\ Entries(ret.obj)[i].mode = Entries(l.obj)[i].mode
                /\ Entries(ret.obj)[i].hash = Entries(l.obj)[i].hash
                /\ Entries(ret.obj)[i].objType = Entries(l.obj)[i].objType

\* C3: once the bytes stored for a written hash differ from what WriteObject
\* stored, ReadObject of that hash fails with the integrity error; and no
\* ReadObject succeeds on bytes whose digest differs from the hash asked for.
C3_Integrity ==
    /\ \A l \in log :
          (ret.op = "read" /\ ret.hash = l.hash /\ ret.bytes # CompressZstd(l.data))
          => ret.err = "object integrity check failed"
    /\ (ret.op = "read" /\ ret.err = "")
          => /\ DecompressZstd(ret.bytes).err = ""
             /\ calculateHash(DecompressZstd(ret.bytes).val) = ret.hash

\* C4: after a successful WriteObject(O) returning h, for O of any of the
\* four kinds, O's stored hash is h; the object a successful ReadObject(h)
\* returns has stored hash h.
C4_HashAssigned ==
    (ret.op \in {"write", "read"} /\ ret.err = "") => StoredHash(ret.obj) = ret.hash

ObjectFilesComplete ==
    \A path \in DOMAIN disk :
        IsObjectPath(path) => disk[path] = Parts(CompressZstd(path.file.of))
IndexDocs == {Parts(IndexJSON(idx)) : idx \in {EmptyIndex} \cup {IndexOf(p) : p \in Procs}}

\* C5: with a process that may die at any step of WriteObject or of Save,
\* an object path names either no file or the complete compressed bytes of
\* its object, and the index path names a complete document that changes
\* only from the previous document to the one being saved.  (The process
\* dies; what the kernel has accepted stays.  The code calls no fsync, so
\* a loss of power is outside this statement.)
C5_CrashSafe ==
    [][/\ ObjectFilesComplete'
       /\ IndexPath \in DOMAIN disk'
       /\ disk'[IndexPath] \in IndexDocs
       /\ disk'[IndexPath] # disk[IndexPath] => disk'[IndexPath] = Parts(procs[1].data)]_vars
\* after two crashes: a part-written temp file left in an object directory,
\* a part-written index.tmp, an object and a saved index in place
C5_Witness ==
    /\ ncrash = 2
    /\ \E q \in DOMAIN disk : "tmp" \in DOMAIN q /\ Len(disk[q]) = 1
    /\ tmpPath(IndexPath) \in DOMAIN disk /\ Len(disk[tmpPath(IndexPath)]) = 1
    /\ \E q \in DOMAIN disk : IsObjectPath(q)
    /\ disk[IndexPath] = Parts(IndexJSON(IndexOf(1)))

\* C6: with two Index instances saving to the same repository in any
\* interleaving, the index path always names a complete document of one of
\* the saves or the initial one, and a reader of the index path reads one.
C6_IndexNeverPartial ==
    /\ IndexPath \in DOMAIN disk
    /\ disk[IndexPath] \in IndexDocs
    /\ reader.pc = "done" => reader.buf \in IndexDocs

\* C7: with two processes writing the same or different objects in any
\* interleaving, every file at an object path holds the complete compressed
\* serialization whose digest the path spells, and a reader of an object
\* path reads exactly that.
C7_NoCorruption ==
    /\ ObjectFilesComplete
    /\ (reader.pc = "done" /\ IsObjectPath(reader.path))
          => reader.buf = Parts(CompressZstd(reader.path.file.of))
\* both processes write an object already in place: one is about to rename
\* over it, the other is half way through its temp file, a reader has read
\* the file, and a second object is stored too
C7_Witness ==
    /\ procs[2].pc = "rename"
    /\ procs[1].pc = "write" /\ procs[1].off = 1
    /\ procs[1].path = procs[2].path
    /\ procs[2].path \in DOMAIN disk
    /\ reader.pc = "done" /\ reader.path = procs[2].path
    /\ Cardinality({q \in DOMAIN disk : IsObjectPath(q)}) = 2

\* C8: after any sequence of AddEntry and RemoveEntry calls the entries are
\* sorted ascending by name with no name twice; AddEntry of a name already
\* present replaces that entry and keeps the count, AddEntry of a new name
\* raises the count by one.
TreeSorted(t) ==
    \A i \in 1..Len(t.entries) : \A j \in 1..Len(t.entries) :
        i < j => LexLess(t.entries[i].name, t.entries[j].name)
C8_TreeInvariant ==
    [][/\ TreeSorted(tree')
       /\ call'.op = "AddEntry" =>
            /\ \E i \in 1..Len(tree'.entries) : tree'.entries[i] = call'.entry
            /\ Len(tree'.entries) =
                 IF \E i \in 1..Len(tree.entries) : tree.entries[i].name = call'.name
                 THEN Len(tree.entries) ELSE Len(tree.entries) + 1]_vars
\* a replaced entry and a removed one, in a tree of two entries
C8_Witness ==
    /\ call.op = "AddEntry" /\ call.found
    /\ Len(tree.entries) = 2
    /\ tree.entries[1].name = <<97>> /\ tree.entries[1].mode = FileModeExec

\* C9: two successful WriteObject calls return the same hash if and only if
\* the Serialize() outputs they stored are byte-identical.  (SHA-256 is taken
\* to be free of collisions: a digest stands for the bytes it was made of.)
C9_Determinism == \A a \in log : \A b \in log : (a.hash = b.hash) <=> (a.data = b.data)
\* two writes of the same bytes (from unequal objects) and one of other bytes
C9_Witness ==
    \E a \in log : \E b \in log : \E c \in log :
        a.obj # b.obj /\ a.data = b.data /\ c.data # a.data

\* C10: a successful WriteObject of bytes that an earlier WriteObject stored
\* returns the hash the earlier call returned and leaves the stored files,
\* and the bytes of each, as they were.
C10_Idempotent ==
    [][(ret'.op = "write" /\ ret'.err = "" /\ \E l \in log : l.data = ret'.data)
       => /\ \A l \in log : l.data = ret'.data => l.hash = ret'.hash
          /\ files' = files
          /\ dirs' = dirs]_vars
\* the store after a second write of bytes already stored
C10_Witness ==
    /\ ret.op = "write" /\ ret.err = ""
    /\ \E l \in log : l.data = ret.data /\ l.obj # ret.obj /\ IsEmpty(StoredHash(l.obj))
    /\ \E l \in log : l.data = ret.data /\ ~IsEmpty(StoredHash(l.obj))

\* ================================================ hashes as characters
\* objects.Hash is a string the store never validates.  Here a hash is the
\* sequence of its character codes and a path is the sequence of its
\* components below the repository root, as filepath.Join leaves them.
MaxHashLen == 3
\* 'a', 'b', '.', '/'
HashChars == {97, 98, 46, 47}
RECURSIVE StringsUpTo(_)
StringsUpTo(n) ==
    IF n = 0 THEN {<<>>}
    ELSE StringsUpTo(n - 1) \cup
         {Append(h, c) : h \in {x \in StringsUpTo(n - 1) : Len(x) = n - 1}, c \in HashChars}
\* strings.Split(s, "/")
RECURSIVE SplitPath(_)
SplitPath(s) ==
    IF s = <<>> THEN << <<>> >>
    ELSE LET r == SplitPath(Tail(s))
         IN IF s[1] = 47 THEN << <<>> >> \o r
            ELSE << <<s[1]>> \o r[1] >> \o Tail(r)
\* filepath.Clean on the components: "" and "." vanish, ".." takes the
\* component before it away, or stays if there is none
RECURSIVE Clean(_, _)
Clean(todo, done) ==
    IF todo = <<>> THEN done
    ELSE IF todo[1] = <<>> \/ todo[1] = <<46>> THEN Clean(Tail(todo), done)
    ELSE IF todo[1] = <<46, 46>> /\ done # <<>> /\ done[Len(done)] # <<46, 46>>
         THEN Clean(Tail(todo), SubSeq(done, 1, Len(done) - 1))
    ELSE Clean(Tail(todo), Append(done, todo[1]))
RECURSIVE SplitAll(_)
SplitAll(elems) == IF elems = <<>> THEN <<>> ELSE SplitPath(elems[1]) \o SplitAll(Tail(elems))
\* filepath.Join(elems...)
Join(elems) == Clean(SplitAll(elems), <<>>)
\* ".sib" and "objects"
SibDir == <<46, 115, 105, 98>>
ObjectsName == <<111, 98, 106, 101, 99, 116, 115>>
\* objectsDir := filepath.Join(repoPath, ".sib", "objects")
objectsDir == Join(<<SibDir, ObjectsName>>)
\* hashToPath on a hash given as characters
hashToPathOf(hashStr) ==
    IF Len(hashStr) < 2 THEN Fail("hash too short", <<>>)
    ELSE Ok(Join(objectsDir \o <<SubSeq(hashStr, 1, 2), SubSeq(hashStr, 3, Len(hashStr))>>))
\* a repository that holds no object yet: the paths os.Stat finds
FreshRepoPaths == {<<>>, <<SibDir>>, objectsDir}
\* ObjectExists and ReadObject on such a repository
ObjectExistsOf(hashStr) ==
    IF hashToPathOf(hashStr).err # "" THEN FALSE
    ELSE hashToPathOf(hashStr).val \in FreshRepoPaths
ReadObjectOf(hashStr) ==
    IF hashStr = <<>> THEN "hash cannot be empty"
    ELSE IF hashToPathOf(hashStr).err # "" THEN "failed to create object path"
    ELSE "failed to read object file"
InitPath ==
    /\ tree = NewTree
    /\ call = NoCall
    /\ index = EmptyIndex
    /\ dirs = {}
    /\ files = <<>>
    /\ ret = NoRet
    /\ log = {}
    /\ disk = <<>>
    /\ procs = [p \in Procs |-> IdleProc]
    /\ reader = IdleReader
    /\ ncrash = 0
CallHashToPath(h) ==
    /\ call' = [op |-> "hashToPath", hash |-> h, err |-> hashToPathOf(h).err,
                path |-> hashToPathOf(h).val, found |-> FALSE]
    /\ UNCHANGED <<tree, index, dirs, files, ret, log, osVars>>
CallObjectExists(h) ==
    /\ call' = [op |-> "ObjectExists", hash |-> h, err |-> "", path |-> <<>>,
                found |-> ObjectExistsOf(h)]
    /\ UNCHANGED <<tree, index, dirs, files, ret, log, osVars>>
CallReadObject(h) ==
    /\ call' = [op |-> "ReadObject", hash |-> h, err |-> ReadObjectOf(h), path |-> <<>>,
                found |-> FALSE]
    /\ UNCHANGED <<tree, index, dirs, files, ret, log, osVars>>
NextPath ==
    \/ \E h \in StringsUpTo(MaxHashLen) : CallHashToPath(h)
    \/ \E h \in StringsUpTo(MaxHashLen) : CallObjectExists(h)
    \/ \E h \in StringsUpTo(MaxHashLen) : CallReadObject(h)
SpecPath == InitPath /\ [][NextPath]_vars

\* C11: hashToPath puts every hash h of two or more characters at
\* <objects>/<h[0:2]>/<h[2:]> and rejects every shorter h, the empty one
\* included; for such a short h ReadObject fails on the hash and
\* ObjectExists is false.
C11_Addressing ==
    /\ (call.op = "hashToPath" /\ Len(call.hash) >= 2)
          => /\ call.err = ""
             /\ call.path = objectsDir \o <<SubSeq(call.hash, 1, 2)>> \o
                   (IF Len(call.hash) > 2 THEN <<SubSeq(call.hash, 3, Len(call.hash))>> ELSE <<>>)
    /\ (call.op = "hashToPath" /\ Len(call.hash) < 2) => call.err # ""
    /\ (call.op = "ReadObject" /\ Len(call.hash) < 2)
          => call.err \in {"hash cannot be empty", "failed to create object path"}
    /\ (call.op = "ObjectExists" /\ Len(call.hash) < 2) => ~call.found

\* ------------------------------------------------------- ObjectExists
DoObjectExists(hash) ==
    /\ ret' = [op |-> "exists", hash |-> hash, err |-> "", obj |-> NoObject, data |-> NoData,
               bytes |-> NoBytes, found |-> ObjectExists(hash, dirs, files)]
    /\ UNCHANGED <<tree, call, index, dirs, files, log, osVars>>
ExistsInputs == WriteInputs \cup {Commit1}
\* a written hash cut to its first n characters
Prefix(h, n) == [len |-> n, of |-> h.of]
\* the hashes asked for: those of the objects written, some never written,
\* "" and prefixes of both
ExistsHashes ==
    LET full == {HashOf(o) : o \in ExistsInputs} \cup {HashOf(NewBlob(<<120>>, FALSE))}
    IN full \cup {NoHash} \cup {Prefix(h, n) : h \in full, n \in {1, 2, 3, HashHexLen - 1}}
NextExists ==
    \/ \E obj \in ExistsInputs : DoWriteObject(obj, "")
    \/ \E hash \in ExistsHashes : DoObjectExists(hash)
SpecExists == InitStore /\ [][NextExists]_vars

\* C12: after any sequence of WriteObject calls ObjectExists(h) is true
\* exactly when a successful WriteObject returned h; it is false for a hash
\* never written, a prefix of a written hash included.
C12_ExistsExact ==
    ret.op = "exists" => (ret.found <=> \E l \in log : l.hash = ret.hash)

\* ===================================================== the repository
\* The files under the repository root as os.Stat, os.MkdirAll and
\* os.ReadFile see them: a path (its components) names a directory or a
\* regular file with its bytes; a path outside the domain names nothing.
DirNode == [kind |-> "dir", data |-> <<>>]
FileNode(data) == [kind |-> "file", data |-> data]
\* os.Stat(path): "" when something is there, else the errno
Stat(fs, path) ==
    IF \E n \in 1..(Len(path) - 1) :
           SubSeq(path, 1, n) \in DOMAIN fs /\ fs[SubSeq(path, 1, n)].kind = "file"
    THEN "ENOTDIR"
    ELSE IF path \in DOMAIN fs THEN "" ELSE "ENOENT"
\* os.IsNotExist(err)
IsNotExist(errno) == errno = "ENOENT"
\* NewObjectStore(repoPath): the error returned; the files are not touched
NewObjectStore(fs) ==
    IF IsNotExist(Stat(fs, objectsDir)) THEN "not a sib repository: .sib/objects not found"
    ELSE ""

\* ============================================================ the Index
\* The build under study is the Unix one: '/' is the only separator and a
\* backslash is an ordinary character.  (On Windows both separate.)
GOOS == "linux"
Separators(goos) == IF goos = "windows" THEN {47, 92} ELSE {47}
\* the components of s between separators
RECURSIVE SplitOn(_, _)
SplitOn(s, seps) ==
    IF s = <<>> THEN << <<>> >>
    ELSE LET r == SplitOn(Tail(s), seps)
         IN IF s[1] \in seps THEN << <<>> >> \o r
            ELSE << <<s[1]>> \o r[1] >> \o Tail(r)
\* filepath.Clean on components; below a root ".." has nothing to climb to
RECURSIVE CleanComps(_, _, _)
CleanComps(todo, done, rooted) ==
    IF todo = <<>> THEN done
    ELSE IF todo[1] = <<>> \/ todo[1] = <<46>> THEN CleanComps(Tail(todo), done, rooted)
    ELSE IF todo[1] = <<46, 46>> /\ done # <<>> /\ done[Len(done)] # <<46, 46>>
         THEN CleanComps(Tail(todo), SubSeq(done, 1, Len(done) - 1), rooted)
    ELSE IF todo[1] = <<46, 46>> /\ done = <<>> /\ rooted THEN CleanComps(Tail(todo), done, rooted)
    ELSE CleanComps(Tail(todo), Append(done, todo[1]), rooted)
RECURSIVE JoinSlash(_)
JoinSlash(comps) ==
    IF comps = <<>> THEN <<>>
    ELSE IF Len(comps) = 1 THEN comps[1]
    ELSE comps[1] \o <<47>> \o JoinSlash(Tail(comps))
\* filepath.ToSlash(filepath.Clean(path))
normalizePath(path) ==
    LET seps == Separators(GOOS)
        rooted == path # <<>> /\ path[1] \in seps
        comps == CleanComps(SplitOn(path, seps), <<>>, rooted)
    IN IF rooted THEN <<47>> \o JoinSlash(comps)
       ELSE IF comps = <<>> THEN <<46>>
       ELSE JoinSlash(comps)
\* a mode check that also lets the symlink mode through
isValidMode_WithSymlink(mode) == mode \in {"100644", "100755", "040000", "120000"}
isValidMode(mode) == mode \in {"100644", "100755", "040000"}
\* an Add that starts a fresh map holding only the new entry
IndexAdd_Fresh(idx, path, hash, size, mode, mtime, now) ==
    IF path = <<>> \/ hash = <<>> \/ size < 0 \/ ~isValidMode(mode) \/ idx.nilMap
    THEN [err |-> "rejected", idx |-> idx]
    ELSE [err |-> "",
          idx |-> [idx EXCEPT !.Entries =
                      [k \in {normalizePath(path)} |->
                          [IndexEntry(hash, size, mode, mtime, k) EXCEPT !.ctime = now]]]]
\* Index.Add: the error returned and the Index afterwards.  A store into a
\* nil map panics.
\* an Add that keys the entry by the path as given
IndexAdd_RawKey(idx, path, hash, size, mode, mtime, now) ==
    LET entry == [IndexEntry(hash, size, mode, mtime, normalizePath(path)) EXCEPT !.ctime = now]
        fail(msg) == [err |-> msg, idx |-> idx]
    IN IF path = <<>> THEN fail("path cannot be empty")
       ELSE IF hash = <<>> THEN fail("hash cannot be empty")
       ELSE IF size < 0 THEN fail("size cannot be negative")
       ELSE IF ~isValidMode(mode) THEN fail("invalid file mode")
       ELSE IF idx.nilMap THEN fail("panic: assignment to entry in nil map")
       ELSE [err |-> "",
             idx |-> [idx EXCEPT !.Entries = [k \in DOMAIN idx.Entries \cup {path} |->
                                                IF k = path THEN entry ELSE idx.Entries[k]]]]
IndexAdd(idx, path, hash, size, mode, mtime, now) ==
    LET normalizedPath == normalizePath(path)
        entry == [IndexEntry(hash, size, mode, mtime, normalizedPath) EXCEPT !.ctime = now]
        fail(msg) == [err |-> msg, idx |-> idx]
    IN IF path = <<>> THEN fail("path cannot be empty")
       ELSE IF hash = <<>> THEN fail("hash cannot be empty")
       ELSE IF size < 0 THEN fail("size cannot be negative")
       ELSE IF ~isValidMode(mode) THEN fail("invalid file mode")
       ELSE IF idx.nilMap THEN fail("panic: assignment to entry in nil map")
       ELSE [err |-> "",
             idx |-> [idx EXCEPT !.Entries = [k \in DOMAIN idx.Entries \cup {normalizedPath} |->
                                                IF k = normalizedPath THEN entry
                                                ELSE idx.Entries[k]]]]
\* a Remove that reports success for a path the Index does not hold
IndexRemove_Silent(idx, path) ==
    IF path = <<>> THEN [err |-> "path cannot be empty", idx |-> idx]
    ELSE [err |-> "",
          idx |-> [idx EXCEPT !.Entries = [k \in DOMAIN idx.Entries \ {normalizePath(path)} |->
                                             idx.Entries[k]]]]
\* Index.Remove
IndexRemove(idx, path) ==
    LET normalizedPath == normalizePath(path)
    IN IF path = <<>> THEN [err |-> "path cannot be empty", idx |-> idx]
       ELSE IF normalizedPath \notin DOMAIN idx.Entries
            THEN [err |-> "file not found in index", idx |-> idx]
       ELSE [err |-> "",
             idx |-> [idx EXCEPT !.Entries = [k \in DOMAIN idx.Entries \ {normalizedPath} |->
                                                idx.Entries[k]]]]
\* Index.Clear
IndexClear(idx) == [idx EXCEPT !.Entries = <<>>, !.nilMap = FALSE]
ZeroIndexEntry ==
    [Hash |-> <<>>, Size |-> 0, Mode |-> "", Mtime |-> Time(ZeroTime, FALSE), Path |-> <<>>,
     ctime |-> Time(ZeroTime, FALSE), validated |-> FALSE, stage |-> 0]
\* Index.Get
IndexGet(idx, path) ==
    IF path = <<>> THEN Fail("path cannot be empty", ZeroIndexEntry)
    ELSE IF normalizePath(path) \notin DOMAIN idx.Entries
         THEN Fail("file not found in index", ZeroIndexEntry)
    ELSE Ok(idx.Entries[normalizePath(path)])
\* Index.Count
Count(idx) == Cardinality(DOMAIN idx.Entries)

\* ----------------------------------------------------- the index file
IndexName == <<105, 110, 100, 101, 120>>
IndexFile == Join(<<SibDir, IndexName>>)
\* tmpPath := idx.path + ".tmp"
IndexTmpFile == [IndexFile EXCEPT ![Len(IndexFile)] = @ \o <<46, 116, 109, 112>>]
\* What the bytes of a file are to json.Unmarshal: nothing at all, text
\* that is not JSON, JSON of the wrong shape (an array, a string where a
\* number belongs), the text null, or an object with its members.
EmptyBytes == [form |-> "empty", doc |-> <<>>]
GarbageBytes == [form |-> "garbage", doc |-> <<>>]
MistypedJSON == [form |-> "mistyped", doc |-> <<>>]
NullJSON == [form |-> "null", doc |-> <<>>]
JSONText(doc) == [form |-> "json", doc |-> doc]
Put(fs, path, node) == [p \in DOMAIN fs \cup {path} |-> IF p = path THEN node ELSE fs[p]]
Del(fs, path) == [p \in DOMAIN fs \ {path} |-> fs[p]]
IsDir(fs, path) == Stat(fs, path) = "" /\ fs[path].kind = "dir"
\* os.MkdirAll of a path one level below the root
MkdirAll(fs, path) ==
    IF path \notin DOMAIN fs THEN [err |-> "", fs |-> Put(fs, path, DirNode)]
    ELSE IF fs[path].kind = "dir" THEN [err |-> "", fs |-> fs]
    ELSE [err |-> "ENOTDIR", fs |-> fs]
\* os.ReadFile
ReadFileAt(fs, path) ==
    IF Stat(fs, path) # "" THEN Fail(Stat(fs, path), EmptyBytes)
    ELSE IF fs[path].kind = "dir" THEN Fail("EISDIR", EmptyBytes)
    ELSE Ok(fs[path].data)
\* os.WriteFile: creates or truncates the file and writes the bytes
WriteFileAt(fs, path, data) ==
    IF Stat(fs, path) = "ENOTDIR" \/ ~IsDir(fs, SubSeq(path, 1, Len(path) - 1))
    THEN [err |-> "ENOTDIR", fs |-> fs]
    ELSE IF path \in DOMAIN fs /\ fs[path].kind = "dir" THEN [err |-> "EISDIR", fs |-> fs]
    ELSE [err |-> "", fs |-> Put(fs, path, FileNode(data))]
\* os.Rename of a regular file
RenameAt(fs, from, to) ==
    IF to \in DOMAIN fs /\ fs[to].kind = "dir" THEN [err |-> "EISDIR", fs |-> fs]
    ELSE [err |-> "", fs |-> Del(Put(fs, to, fs[from]), from)]
\* Index.Save: the error, the files afterwards, and the Index, whose
\* Entries Save replaces by a fresh map
IndexSave(idx, fs) ==
    LET ordered == [idx EXCEPT !.nilMap = FALSE]
        data == JSONText(IndexJSON(ordered))
        w == WriteFileAt(fs, IndexTmpFile, data)
        r == RenameAt(w.fs, IndexTmpFile, IndexFile)
    IN IF w.err # "" THEN [err |-> "failed to write temporary index file", fs |-> w.fs,
                           idx |-> ordered]
       ELSE IF r.err # "" THEN [err |-> "failed to rename index file",
                                fs |-> Del(w.fs, IndexTmpFile), idx |-> ordered]
       ELSE [err |-> "", fs |-> r.fs, idx |-> ordered]
\* json.Unmarshal of one entry: the unexported fields keep the zero value
UnmarshalEntry(j) ==
    [UnmarshalStruct(j, ZeroIndexEntry) EXCEPT
        !.Hash = DecodeJSONString(@), !.Path = DecodeJSONString(@),
        !.Mtime = IF "Mtime" \in DOMAIN j THEN UnmarshalTime(j.Mtime) ELSE @]
UnmarshalEntries(entries) ==
    [k \in {DecodeJSONString(j) : j \in DOMAIN entries} |->
        UnmarshalEntry(entries[CHOOSE j \in DOMAIN entries : DecodeJSONString(j) = k])]
\* Index.load surfacing the parse error instead of starting empty
IndexLoad_Strict(idx, fs) ==
    LET r == ReadFileAt(fs, IndexFile)
    IN IF r.err # "" THEN [err |-> r.err, idx |-> idx]
       ELSE IF r.val.form \in {"garbage", "mistyped"}
            THEN [err |-> "invalid character", idx |-> idx]
       ELSE [err |-> "", idx |-> [idx EXCEPT !.Entries = <<>>, !.nilMap = FALSE]]
\* Index.load: the error and the Index afterwards
IndexLoad(idx, fs) ==
    LET r == ReadFileAt(fs, IndexFile)
        empty == [idx EXCEPT !.Entries = <<>>, !.nilMap = FALSE]
    IN IF r.err # "" THEN [err |-> r.err, idx |-> idx]
       ELSE IF r.val.form = "empty" THEN [err |-> "", idx |-> empty]
       ELSE IF r.val.form \in {"garbage", "mistyped"} THEN [err |-> "", idx |-> empty]
       ELSE IF r.val.form = "null"
            THEN [err |-> "", idx |-> [Version |-> 0, Entries |-> <<>>, nilMap |-> TRUE]]
       ELSE [err |-> "",
             idx |-> [Version |-> IF "version" \in DOMAIN r.val.doc THEN r.val.doc.version
                                  ELSE 0,
                      Entries |-> IF "entries" \in DOMAIN r.val.doc
                                  THEN UnmarshalEntries(r.val.doc.entries) ELSE <<>>,
                      nilMap |-> "entries" \notin DOMAIN r.val.doc]]
\* NewIndex(repoPath): the error, the Index and the files afterwards
\* a NewIndex that does not read the index file that is there
NewIndex_Fresh(fs) ==
    LET m == MkdirAll(fs, Join(<<SibDir>>))
    IN IF m.err # "" THEN [err |-> "failed to create .sib directory", idx |-> EmptyIndex,
                           fs |-> fs]
       ELSE [err |-> "", idx |-> EmptyIndex, fs |-> m.fs]
NewIndex(fs) ==
    LET m == MkdirAll(fs, Join(<<SibDir>>))
        s == IF IsNotExist(Stat(m.fs, IndexFile)) THEN IndexSave(EmptyIndex, m.fs)
             ELSE [err |-> "", fs |-> m.fs, idx |-> EmptyIndex]
        l == IndexLoad(EmptyIndex, s.fs)
    IN IF m.err # "" THEN [err |-> "failed to create .sib directory", idx |-> EmptyIndex,
                           fs |-> fs]
       ELSE IF s.err # "" THEN [err |-> "failed to create index file", idx |-> EmptyIndex,
                                fs |-> s.fs]
       ELSE IF l.err # "" /\ ~IsNotExist(l.err)
            THEN [err |-> "failed to load index", idx |-> EmptyIndex, fs |-> s.fs]
       ELSE [err |-> "", idx |-> l.idx, fs |-> s.fs]

\* ------------------------------------------- a repository and its Index
\* What may lie under the root when a command starts: no .sib, a regular
\* file named .sib, or a .sib directory with or without objects and index.
IndexFileStates ==
    {FileNode(b) : b \in {EmptyBytes, GarbageBytes, MistypedJSON, NullJSON, JSONText(<<>>)}}
        \cup {DirNode}
\* a .sib directory holding objects and index as o and i say (Absent: none)
Absent == [kind |-> "absent", data |-> <<>>]
SibWith(o, i) ==
    LET d == Put(<<>>, Join(<<SibDir>>), DirNode)
        e == IF o = Absent THEN d ELSE Put(d, objectsDir, o)
    IN IF i = Absent THEN e ELSE Put(e, IndexFile, i)
\* the same with the temporary file an interrupted Save left behind
WithStaleTmp(fs) == Put(fs, IndexTmpFile, FileNode(GarbageBytes))
RepoStates ==
    LET sibs == {SibWith(o, i) : o \in {Absent, DirNode, FileNode(EmptyBytes)},
                                 i \in {Absent} \cup IndexFileStates}
    IN {<<>>, Put(<<>>, Join(<<SibDir>>), FileNode(EmptyBytes))}
          \cup sibs \cup {WithStaleTmp(fs) : fs \in sibs}
\* no Index has been constructed yet
NoIndex == [Version |-> 0, Entries |-> <<>>, nilMap |-> TRUE, none |-> TRUE]
PathAB == <<97, 47, 98>>
PathBackslash == <<97, 92, 98>>
PathDot == <<46, 47, 97, 47, 98>>
PathDouble == <<97, 47, 47, 98>>
PathDotDot == <<46, 47, 97, 47, 46, 46, 47, 97, 47, 98>>
PathBadUTF8 == <<255>>
PathOther == <<98>>
Spellings == {PathAB, PathBackslash, PathDot, PathDouble, PathDotDot}
Hash1 == <<104, 49>>
Hash2 == <<104, 50>>
Mtime1 == Time(1700000000, FALSE)
Mtime2 == Time(1700000005, FALSE)
\* time.Now() in Add
Now == Time(1700000100, TRUE)
AddInput(path, hash, size, mode, mtime) ==
    [path |-> path, hash |-> hash, size |-> size, mode |-> mode, mtime |-> mtime]
AddInputs ==
    {AddInput(PathAB, Hash1, 2, "100644", Mtime1),
     AddInput(PathBackslash, Hash1, 2, "100755", Mtime1),
     AddInput(PathDot, Hash2, 3, "100644", Mtime2),
     AddInput(PathDouble, Hash1, 2, "100644", Mtime1),
     AddInput(PathDotDot, Hash2, 3, "100644", Mtime2),
     AddInput(PathBadUTF8, Hash1, 0, "040000", Mtime1),
     AddInput(<<>>, Hash1, 2, "100644", Mtime1),
     AddInput(PathAB, <<>>, 2, "100644", Mtime1),
     AddInput(PathAB, Hash1, -1, "100644", Mtime1),
     AddInput(PathAB, Hash1, 2, "120000", Mtime1),
     AddInput(PathAB, Hash1, 2, "40000", Mtime1),
     AddInput(PathAB, Hash1, 2, "", Mtime1)}
PathInputs == {<<>>, PathAB, PathBackslash, PathDot, PathBadUTF8, PathOther}
InitIndex ==
    /\ tree = NewTree
    /\ call = NoCall
    /\ index = NoIndex
    /\ dirs = {}
    /\ files = <<>>
    /\ ret = NoRet
    /\ log = {}
    /\ disk \in {SibWith(DirNode, i) : i \in {Absent} \cup IndexFileStates}
    /\ procs = <<>>
    /\ reader = <<>>
    /\ ncrash = 0
\* a command starts in any of the repository states
InitOpen ==
    /\ tree = NewTree
    /\ call = NoCall
    /\ index = NoIndex
    /\ dirs = {}
    /\ files = <<>>
    /\ ret = NoRet
    /\ log = {}
    /\ disk \in RepoStates
    /\ procs = <<>>
    /\ reader = <<>>
    /\ ncrash = 0
IndexCall(op, in, err, out) == [op |-> op, in |-> in, err |-> err, out |-> out]
CallNewObjectStore ==
    /\ call' = IndexCall("NewObjectStore", <<>>, NewObjectStore(disk), <<>>)
    /\ UNCHANGED <<tree, index, dirs, files, ret, log, disk, procs, reader, ncrash>>
CallNewIndex ==
    /\ call' = IndexCall("NewIndex", <<>>, NewIndex(disk).err, <<>>)
    /\ index' = IF NewIndex(disk).err = "" THEN NewIndex(disk).idx ELSE index
    /\ disk' = NewIndex(disk).fs
    /\ UNCHANGED <<tree, dirs, files, ret, log, procs, reader, ncrash>>
CallAdd(in) ==
    /\ index # NoIndex
    /\ call' = IndexCall("Add", in,
                         IndexAdd(index, in.path, in.hash, in.size, in.mode, in.mtime, Now).err,
                         <<>>)
    /\ index' = IndexAdd(index, in.path, in.hash, in.size, in.mode, in.mtime, Now).idx
    /\ UNCHANGED <<tree, dirs, files, ret, log, osVars>>
CallRemove(path) ==
    /\ index # NoIndex
    /\ call' = IndexCall("Remove", [path |-> path], IndexRemove(index, path).err, <<>>)
    /\ index' = IndexRemove(index, path).idx
    /\ UNCHANGED <<tree, dirs, files, ret, log, osVars>>
CallGet(path) ==
    /\ index # NoIndex
    /\ call' = IndexCall("Get", [path |-> path], IndexGet(index, path).err,
                         IndexGet(index, path).val)
    /\ UNCHANGED <<tree, index, dirs, files, ret, log, osVars>>
CallClear ==
    /\ index # NoIndex
    /\ call' = IndexCall("Clear", <<>>, "", <<>>)
    /\ index' = IndexClear(index)
    /\ UNCHANGED <<tree, dirs, files, ret, log, osVars>>
CallSave ==
    /\ index # NoIndex
    /\ call' = IndexCall("Save", <<>>, IndexSave(index, disk).err, <<>>)
    /\ index' = IndexSave(index, disk).idx
    /\ disk' = IndexSave(index, disk).fs
    /\ UNCHANGED <<tree, dirs, files, ret, log, procs, reader, ncrash>>
NextOpen ==
    \/ CallNewObjectStore
    \/ CallNewIndex
SpecOpen == InitOpen /\ [][NextOpen]_vars
NextIndex ==
    \/ CallNewIndex
    \/ \E in \in AddInputs : CallAdd(in)
    \/ \E path \in PathInputs : CallRemove(path)
    \/ \E path \in PathInputs : CallGet(path)
    \/ CallClear
    \/ CallSave
SpecIndex == InitIndex /\ [][NextIndex]_vars

\* C13: constructing the object store never creates the objects directory
\* and leaves every file as it was; it fails (not a repository) when there
\* is no objects directory and succeeds when there is one.
C13_RequiresObjectsDir ==
    [][call'.op = "NewObjectStore"
          => /\ disk' = disk
             /\ IsDir(disk, objectsDir) => call'.err = ""
             /\ ~IsDir(disk, objectsDir) => call'.err # ""]_vars

\* C19: whatever bytes the index file holds, NewIndex succeeds.  With no
\* index file it writes one holding the empty index; with a file that is
\* empty or not the JSON of an index it returns an Index of count 0.
\* (The case is a .sib that is absent or a directory and an index path that
\* is absent or a regular file.)
HasContentOnly(fs) ==
    /\ Join(<<SibDir>>) \in DOMAIN fs => fs[Join(<<SibDir>>)].kind = "dir"
    /\ IndexFile \in DOMAIN fs => fs[IndexFile].kind = "file"
C19_ContentNeverFails ==
    [][(call'.op = "NewIndex" /\ HasContentOnly(disk))
          => /\ call'.err = ""
             /\ IndexFile \notin DOMAIN disk
                   => /\ disk'[IndexFile] = FileNode(JSONText(IndexJSON(EmptyIndex)))
                      /\ Count(index') = 0
             /\ (IndexFile \in DOMAIN disk /\ disk[IndexFile].data.form # "json")
                   => Count(index') = 0]_vars
C19_Witness ==
    /\ call.op = "NewIndex"
    /\ call.err = ""
    /\ IndexFile \in DOMAIN disk
    /\ disk[IndexFile].data = GarbageBytes
    /\ Count(index) = 0

\* C14: an Add under any of the spellings a/b, a\b, ./a/b, a//b and
\* ./a/../a/b of one file stores its entry under the single key a/b: the
\* Index holds that key afterwards and no key it did not hold before, so
\* adding all of them to an empty Index leaves a count of 1.
C14_OneKey ==
    [][(call'.op = "Add" /\ call'.err = "" /\ call'.in.path \in Spellings)
          => /\ PathAB \in DOMAIN index'.Entries
             /\ DOMAIN index'.Entries \subseteq DOMAIN index.Entries \cup {PathAB}]_vars

\* C15: Add returns an error and leaves the Index as it was when the path
\* is empty, the hash is empty, the size is negative, or the mode is not one
\* of 100644, 100755 and 040000 (120000 among the rejected).
C15_AddRejects ==
    [][(/\ call'.op = "Add"
        /\ \/ call'.in.path = <<>>
           \/ call'.in.hash = <<>>
           \/ call'.in.size < 0
           \/ call'.in.mode \notin {"100644", "100755", "040000"})
          => (call'.err # "" /\ index' = index)]_vars
C15_Witness ==
    /\ call.op = "Add"
    /\ call.in.mode = "120000"
    /\ call.err = "invalid file mode"
    /\ Count(index) = 2

\* C16: after a successful Add(p, hash, size, mode, mtime), Get(p) returns
\* exactly that hash, size, mode and mtime with stage 0; the count is one
\* more when p was absent and the same when it was present; every other
\* entry is as before.
C16_AddUpserts ==
    [][(call'.op = "Add" /\ call'.err = "")
          => LET in == call'.in
                 got == IndexGet(index', in.path)
                 was == IndexGet(index, in.path)
             IN /\ got.err = ""
                /\ got.val.Hash = in.hash
                /\ got.val.Size = in.size
                /\ got.val.Mode = in.mode
                /\ got.val.Mtime = in.mtime
                /\ got.val.stage = 0
                /\ Count(index') = IF was.err = "" THEN Count(index) ELSE Count(index) + 1
                /\ \A k \in DOMAIN index.Entries :
                      /\ k \in DOMAIN index'.Entries
                      /\ k # got.val.Path => index'.Entries[k] = index.Entries[k]
                /\ DOMAIN index'.Entries \subseteq DOMAIN index.Entries \cup {got.val.Path}]_vars
C16_Witness ==
    /\ call.op = "Add"
    /\ call.err = ""
    /\ call.in = AddInput(PathDot, Hash2, 3, "100644", Mtime2)
    /\ Count(index) = 3
    /\ index.Entries[PathAB].Hash = Hash2

\* C17: Remove(p) returns an error and leaves the Index as it was when p is
\* empty or its normalized path is not a key (file not found); otherwise
\* it deletes exactly that entry: the count drops by one, Get(p) fails
\* afterwards and every other entry is as before.
C17_RemoveExact ==
    [][call'.op = "Remove"
          => LET p == call'.in.path
             IN IF p = <<>> THEN call'.err # "" /\ index' = index
                ELSE IF IndexGet(index, p).err # ""
                     THEN call'.err = "file not found in index" /\ index' = index
                ELSE /\ call'.err = ""
                     /\ Count(index') = Count(index) - 1
                     /\ IndexGet(index', p).err # ""
                     /\ \A k \in DOMAIN index'.Entries :
                           k \in DOMAIN index.Entries /\ index'.Entries[k] = index.Entries[k]]_vars
C17_Witness ==
    /\ call.op = "Remove"
    /\ call.err = ""
    /\ call.in.path = PathDot
    /\ Count(index) = 2

\* C18: when a Save has succeeded, a new Index constructed on the same
\* repository holds the same keys as the saved one and under each key the
\* same hash, size, mode, mtime (the same instant) and path.
C18_RoundTrip ==
    [][(call.op = "Save" /\ call.err = "" /\ call'.op = "NewIndex" /\ call'.err = "")
          => /\ DOMAIN index'.Entries = DOMAIN index.Entries
             /\ \A k \in DOMAIN index.Entries \cap DOMAIN index'.Entries :
                   /\ index'.Entries[k].Hash = index.Entries[k].Hash
                   /\ index'.Entries[k].Size = index.Entries[k].Size
                   /\ index'.Entries[k].Mode = index.Entries[k].Mode
                   /\ TimeEqual(index'.Entries[k].Mtime, index.Entries[k].Mtime)
                   /\ index'.Entries[k].Path = index.Entries[k].Path]_vars

\* ------------------------------------------------------------------ Diff
\* The working directory as filepath.Walk sees it: a path below the root
\* (its components) names a directory or a file with size and mtime.
WDir == [kind |-> "dir", size |-> 0, mtime |-> Mtime1]
WFile(size, mtime) == [kind |-> "file", size |-> size, mtime |-> mtime]
\* Walk does not descend into a directory named .sib, wherever it lies
Skipped(wt, path) ==
    \E n \in 1..(Len(path) - 1) :
        SubSeq(path, 1, n) \in DOMAIN wt /\ wt[SubSeq(path, 1, n)].kind = "dir"
            /\ path[n] = SibDir
\* workingFiles: the files Walk reaches, by normalized relative path
WorkingFiles(wt) ==
    LET reached == {p \in DOMAIN wt : wt[p].kind # "dir" /\ ~Skipped(wt, p)}
    IN [k \in {normalizePath(JoinSlash(p)) : p \in reached} |->
           wt[CHOOSE p \in reached : normalizePath(JoinSlash(p)) = k]]
\* sort.Strings of the strings collected from a map
RECURSIVE SortStrings(_)
SortStrings(S) ==
    IF S = {} THEN <<>>
    ELSE LET m == CHOOSE x \in S : \A y \in S \ {x} : LexLess(x, y)
         IN <<m>> \o SortStrings(S \ {m})
\* info.ModTime().Sub(entry.Mtime), in seconds
Sub(t, u) == t.sec - u.sec
\* Index.Diff
\* a Diff whose third loop does not ask whether the path is indexed
Diff_AllModified(idx, wt) ==
    LET workingFiles == WorkingFiles(wt)
        added == {path \in DOMAIN workingFiles : path \notin DOMAIN idx.Entries}
        deleted == {path \in DOMAIN idx.Entries : path \notin DOMAIN workingFiles}
        modified == {path \in DOMAIN workingFiles :
                        \/ path \notin DOMAIN idx.Entries
                        \/ workingFiles[path].size # idx.Entries[path].Size
                        \/ Sub(workingFiles[path].mtime, idx.Entries[path].Mtime) < -1
                        \/ Sub(workingFiles[path].mtime, idx.Entries[path].Mtime) > 1}
    IN [added |-> SortStrings(added), modified |-> SortStrings(modified),
        deleted |-> SortStrings(deleted)]
Diff(idx, wt) ==
    LET workingFiles == WorkingFiles(wt)
        added == {path \in DOMAIN workingFiles : path \notin DOMAIN idx.Entries}
        deleted == {path \in DOMAIN idx.Entries : path \notin DOMAIN workingFiles}
        modified == {path \in DOMAIN workingFiles \cap DOMAIN idx.Entries :
                        \/ workingFiles[path].size # idx.Entries[path].Size
                        \/ Sub(workingFiles[path].mtime, idx.Entries[path].Mtime) < -1
                        \/ Sub(workingFiles[path].mtime, idx.Entries[path].Mtime) > 1}
    IN [added |-> SortStrings(added), modified |-> SortStrings(modified),
        deleted |-> SortStrings(deleted)]
\* the working directories Diff is run on: the repository's own .sib, a
\* file f, a directory d with or without a file g and a nested .sib
NameF == <<102>>
NameD == <<100>>
NameG == <<103>>
Mtime3 == Time(1700000001, FALSE)
RepoTree == Put(Put(<<>>, <<SibDir>>, WDir), <<SibDir, IndexName>>, WFile(2, Mtime1))
TreeWith(f, d, g, nested) ==
    LET t1 == IF f = Absent THEN RepoTree ELSE Put(RepoTree, <<NameF>>, f)
        t2 == IF d THEN Put(t1, <<NameD>>, WDir) ELSE t1
        t3 == IF d /\ g THEN Put(t2, <<NameD, NameG>>, WFile(2, Mtime1)) ELSE t2
    IN IF d /\ nested
       THEN Put(Put(t3, <<NameD, SibDir>>, WDir), <<NameD, SibDir, NameG>>, WFile(2, Mtime1))
       ELSE t3
WorkTrees ==
    {TreeWith(f, d, g, n) :
        f \in {Absent, WFile(2, Mtime1), WFile(3, Mtime1), WFile(2, Mtime3), WFile(2, Mtime2)},
        d \in BOOLEAN, g \in BOOLEAN, n \in BOOLEAN}
\* the Index states Diff is run on, built by Add from the empty Index
AddIf(b, idx, in) ==
    IF b THEN IndexAdd(idx, in.path, in.hash, in.size, in.mode, in.mtime, Now).idx ELSE idx
DiffIndexes ==
    {AddIf(b1, AddIf(b2, AddIf(b3, EmptyIndex,
                               AddInput(NameF, Hash1, 2, "100644", Mtime1)),
                     AddInput(NameD, Hash1, 0, "040000", Mtime1)),
           AddInput(PathOther, Hash2, 2, "100644", Mtime1)) :
        b1 \in BOOLEAN, b2 \in BOOLEAN, b3 \in BOOLEAN}
InitDiff ==
    /\ tree = NewTree
    /\ call = NoCall
    /\ index \in DiffIndexes
    /\ dirs = {}
    /\ files = <<>>
    /\ ret = NoRet
    /\ log = {}
    /\ disk \in WorkTrees
    /\ procs = <<>>
    /\ reader = <<>>
    /\ ncrash = 0
CallDiff ==
    /\ call' = IndexCall("Diff", <<>>, "", Diff(index, disk))
    /\ UNCHANGED <<tree, index, dirs, files, ret, log, osVars>>
NextDiff == CallDiff
SpecDiff == InitDiff /\ [][NextDiff]_vars

\* C20: Diff returns as added exactly the files of the working directory
\* outside the repository's .sib that are not indexed, as deleted exactly
\* the indexed paths with nothing on disk, as modified exactly the paths
\* in both whose size differs or whose mtime differs by more than a
\* second, each list in ascending order.
OnDisk(wt) == {JoinSlash(p) : p \in DOMAIN wt}
TreeFiles(wt) == {JoinSlash(p) : p \in {q \in DOMAIN wt : wt[q].kind = "file" /\ q[1] # SibDir}}
FileAt(wt, k) == wt[CHOOSE p \in DOMAIN wt : JoinSlash(p) = k]
Members(list) == {list[i] : i \in 1..Len(list)}
Ascending(list) == \A i \in 1..(Len(list) - 1) : LexLess(list[i], list[i + 1])
C20_DiffExact ==
    call.op = "Diff"
       => /\ Members(call.out.added) = TreeFiles(disk) \ DOMAIN index.Entries
          /\ Members(call.out.deleted) = DOMAIN index.Entries \ OnDisk(disk)
          /\ Members(call.out.modified) =
                {k \in TreeFiles(disk) \cap DOMAIN index.Entries :
                    \/ FileAt(disk, k).size # index.Entries[k].Size
                    \/ FileAt(disk, k).mtime.sec - index.Entries[k].Mtime.sec > 1
                    \/ index.Entries[k].Mtime.sec - FileAt(disk, k).mtime.sec > 1}
          /\ Ascending(call.out.added)
          /\ Ascending(call.out.modified)
          /\ Ascending(call.out.deleted)

\* -------------------------------------------------------------- Validate
\* os.Stat(filepath.Join(repoPath, path)) in the working directory: the
\* node at the cleaned path, Absent when Stat fails
StatAt(wt, path) ==
    LET comps == CleanComps(SplitOn(path, Separators(GOOS)), <<>>, TRUE)
    IN IF comps \in DOMAIN wt THEN wt[comps] ELSE Absent
\* a Validate that compares sizes only
Validate_SizeOnly(idx, wt) ==
    LET invalidFiles == {path \in DOMAIN idx.Entries :
                            \/ StatAt(wt, path) = Absent
                            \/ StatAt(wt, path).size # idx.Entries[path].Size}
    IN [err |-> IF invalidFiles # {} THEN "files in index are invalid or have been modified"
                ELSE "",
        val |-> invalidFiles]
\* Index.Validate: the error and the paths collected (in the order the map
\* is ranged over, which the caller cannot choose)
Validate(idx, wt) ==
    LET invalidFiles ==
            {path \in DOMAIN idx.Entries :
                \/ StatAt(wt, path) = Absent
                \/ StatAt(wt, path).size # idx.Entries[path].Size
                \/ Sub(StatAt(wt, path).mtime, idx.Entries[path].Mtime) < -1
                \/ Sub(StatAt(wt, path).mtime, idx.Entries[path].Mtime) > 1}
    IN [err |-> IF invalidFiles # {} THEN "files in index are invalid or have been modified"
                ELSE "",
        val |-> invalidFiles]
\* the orders in which ranging over a map may deliver the strings of S
Orders(S) ==
    {o \in [1..Cardinality(S) -> S] : \A i, j \in 1..Cardinality(S) : o[i] = o[j] => i = j}
CallValidate(order) ==
    /\ order \in Orders(Validate(index, disk).val)
    /\ call' = IndexCall("Validate", <<>>, Validate(index, disk).err, order)
    /\ UNCHANGED <<tree, index, dirs, files, ret, log, osVars>>
NextValidate ==
    \E order \in UNION {Orders(S) : S \in SUBSET {NameF, NameD, PathOther}} : CallValidate(order)
SpecValidate == InitDiff /\ [][NextValidate]_vars

\* C21: Validate returns exactly the indexed paths with nothing on disk,
\* with a size other than the recorded one, or with an mtime more than a
\* second from the recorded one, each once; it returns an error exactly
\* when there is such a path, and no paths and no error otherwise.
C21_ValidateExact ==
    call.op = "Validate"
       => LET bad == {k \in DOMAIN index.Entries :
                         \/ k \notin OnDisk(disk)
                         \/ FileAt(disk, k).size # index.Entries[k].Size
                         \/ FileAt(disk, k).mtime.sec - index.Entries[k].Mtime.sec > 1
                         \/ index.Entries[k].Mtime.sec - FileAt(disk, k).mtime.sec > 1}
          IN /\ Members(call.out) = bad
             /\ Len(call.out) = Cardinality(bad)
             /\ call.err # "" <=> bad # {}
C21_Witness ==
    /\ call.op = "Validate"
    /\ call.err # ""
    /\ call.out = <<PathOther, NameF>>
    /\ NameF \in OnDisk(disk)
    /\ FileAt(disk, NameF).size = index.Entries[NameF].Size

\* ============================================================== commits
\* The commits callers build and hand to the store: a root, one parent,
\* two parents in either order, equal and different signature times, a name
\* that is not valid UTF-8, and an author time in the year 10000.
SigSame == NewSignature(<<99>>, <<99, 64>>, 1700000000).val
SigBadUTF8 == NewSignature(<<255>>, <<97, 64>>, 1700000000).val
SigFar == NewSignature(<<97>>, <<97, 64>>, YearTenThousand).val
CommitInputs ==
    {NewCommit(TreeHash, ps, a, c, m).val :
        ps \in {<<>>, <<BlobHash>>},
        a \in {SigAuthor}, c \in {SigCommitter, SigSame}, m \in {<<32, 109, 10>>}}
    \cup {NewCommit(TreeHash, <<BlobHash, TreeHash>>, SigAuthor, SigCommitter, <<109>>).val,
          NewCommit(TreeHash, <<TreeHash, BlobHash>>, SigAuthor, SigCommitter, <<109>>).val,
          NewCommit(TreeHash, <<>>, SigBadUTF8, SigCommitter, <<109>>).val,
          NewCommit(TreeHash, <<>>, SigFar, SigCommitter, <<109>>).val}
NextCommit ==
    \/ \E obj \in CommitInputs : DoWriteObject(obj, "")
    \/ \E hash \in HashesOf(CommitInputs) : DoReadObject(hash)
SpecCommit == InitStore /\ [][NextCommit]_vars

\* C22: the commit read back under the hash a write returned has the tree
\* hash, the parents in order (so IsRoot and IsMerge agree), the message and
\* the author and committer name and email of the commit written.
C22_CommitRoundTrip ==
    (ret.op = "read" /\ ret.err = "")
       => \A l \in log :
             l.hash = ret.hash
                => /\ ret.obj.tree = l.obj.tree
                   /\ Parents(ret.obj) = Parents(l.obj)
                   /\ IsRoot(ret.obj) = IsRoot(l.obj)
                   /\ IsMerge(ret.obj) = IsMerge(l.obj)
                   /\ ret.obj.message = l.obj.message
                   /\ ret.obj.author.name = l.obj.author.name
                   /\ ret.obj.author.email = l.obj.author.email
                   /\ ret.obj.committer.name = l.obj.committer.name
                   /\ ret.obj.committer.email = l.obj.committer.email

\* C23: for a written commit whose author and committer times differ, the
\* commit read back has as committer time the author time of the commit
\* written.
C23_OnlyAuthorTime ==
    (ret.op = "read" /\ ret.err = "")
       => \A l \in log :
             (l.hash = ret.hash /\ l.obj.author.when # l.obj.committer.when)
                => ret.obj.committer.when = l.obj.author.when

\* ------------------------------------------------------------ NewCommit
\* Signature values a caller can pass: built by NewSignature, or a zero or
\* partly filled Signature{} struct
SignatureInputs ==
    {SigAuthor, SigFar, ZeroSignature,
     [name |-> <<>>, email |-> <<97, 64>>, when |-> 1700000000],
     [name |-> <<97>>, email |-> <<>>, when |-> 1700000000],
     [name |-> <<97>>, email |-> <<97, 64>>, when |-> ZeroTime]}
DoNewCommit(tr, parents, author, committer, message) ==
    LET r == NewCommit(tr, parents, author, committer, message)
    IN /\ call' = [op |-> "NewCommit",
                   in |-> [tree |-> tr, parents |-> parents, author |-> author,
                           committer |-> committer, message |-> message],
                   err |-> r.err,
                   out |-> [commit |-> r.val,
                            ser |-> IF r.err = "" THEN Serialize(r.val).err ELSE "",
                            isRoot |-> IsRoot(r.val), isMerge |-> IsMerge(r.val)]]
       /\ UNCHANGED <<tree, index, dirs, files, ret, log, osVars>>
NextNewCommit ==
    \E tr \in {NoHash, TreeHash},
       parents \in {<<>>, <<BlobHash>>, <<BlobHash, TreeHash>>, <<BlobHash, TreeHash, BlobHash>>},
       author \in SignatureInputs,
       committer \in {SigCommitter, ZeroSignature},
       message \in {<<>>, <<32, 10>>, <<32, 109, 10>>, <<109>>} :
        DoNewCommit(tr, parents, author, committer, message)
SpecNewCommit == InitStore /\ [][NextNewCommit]_vars

\* C24: NewCommit returns an error for an empty tree hash, for an author
\* or committer with an empty name, an empty email or the zero time, and
\* for a message that is blank once trimmed; a commit it does return holds
\* the trimmed message and serializes without error.
C24_FailFast ==
    call.op = "NewCommit"
       => /\ (\/ IsEmpty(call.in.tree)
              \/ \E sig \in {call.in.author, call.in.committer} :
                    sig.name = <<>> \/ sig.email = <<>> \/ IsZero(sig.when)
              \/ TrimSpace(call.in.message) = <<>>) => call.err # ""
          /\ call.err = ""
                => /\ call.out.commit.message = TrimSpace(call.in.message)
                   /\ call.out.ser = ""

\* C25: IsRoot holds exactly for a commit with no parents and IsMerge
\* exactly for one with two or more; never both, and neither for a commit
\* with one parent.
C25_RootMerge ==
    (call.op = "NewCommit" /\ call.err = "")
       => /\ call.out.isRoot <=> Len(call.out.commit.parents) = 0
          /\ call.out.isMerge <=> Len(call.out.commit.parents) >= 2
          /\ ~(call.out.isRoot /\ call.out.isMerge)
          /\ Len(call.out.commit.parents) = 1 => (~call.out.isRoot /\ ~call.out.isMerge)
C25_Witness ==
    /\ call.op = "NewCommit"
    /\ call.err = ""
    /\ call.out.commit.parents = <<BlobHash>>
    /\ ~call.out.isRoot
    /\ ~call.out.isMerge

\* ================================================================ modes
\* DetectFileMode(info): info tells a directory and an executable file
DetectFileMode(info) ==
    IF info.isDir THEN "040000"
    ELSE IF info.exec THEN "100755"
    ELSE "100644"
ModeInputs == {"100644", "100755", "040000", "40000", "120000", "100664", ""}
CallNewTreeEntry(mode, name, hash, objType) ==
    /\ call' = [op |-> "NewTreeEntry",
                in |-> [mode |-> mode, name |-> name, hash |-> hash, objType |-> objType],
                err |-> NewTreeEntry(mode, name, hash, objType).err,
                out |-> NewTreeEntry(mode, name, hash, objType).val]
    /\ UNCHANGED <<tree, index, dirs, files, ret, log, osVars>>
CallIsValidMode(mode) ==
    /\ call' = [op |-> "isValidMode", in |-> [mode |-> mode], err |-> "",
                out |-> isValidMode(mode)]
    /\ UNCHANGED <<tree, index, dirs, files, ret, log, osVars>>
\* the caller detects the mode of a file and builds its tree entry with it
CallDetectFileMode(info, name) ==
    LET mode == DetectFileMode(info)
    IN /\ call' = [op |-> "DetectFileMode", in |-> [info |-> info, name |-> name],
                   err |-> NewTreeEntry(mode, name, BlobHash,
                                        IF info.isDir THEN "tree" ELSE "blob").err,
                   out |-> mode]
       /\ UNCHANGED <<tree, index, dirs, files, ret, log, osVars>>
NextModes ==
    \/ \E mode \in ModeInputs, name \in {<<>>, <<97>>, <<98>>}, hash \in {NoHash, BlobHash},
          objType \in {"blob", "tree", "commit", "tag", "file"} :
            CallNewTreeEntry(mode, name, hash, objType)
    \/ \E mode \in ModeInputs : CallIsValidMode(mode)
    \/ \E isDir \in BOOLEAN, exec \in BOOLEAN, name \in {<<97>>, <<98>>} :
            CallDetectFileMode([isDir |-> isDir, exec |-> exec], name)
SpecModes == InitStore /\ [][NextModes]_vars

\* C26: the mode check of tree entries accepts exactly 100644, 100755,
\* 040000 and 120000, the index accepts exactly 100644, 100755 and 040000,
\* and every mode DetectFileMode produces, 040000 for a directory among
\* them, is accepted when a tree entry is built with it.
C26_SameCodes ==
    /\ (/\ call.op = "NewTreeEntry"
        /\ call.in.name # <<>>
        /\ ~IsEmpty(call.in.hash)
        /\ call.in.objType \in {"blob", "tree", "commit", "tag"})
          => (call.err = "" <=> call.in.mode \in {"100644", "100755", "040000", "120000"})
    /\ call.op = "isValidMode"
          => (call.out <=> call.in.mode \in {"100644", "100755", "040000"})
    /\ call.op = "DetectFileMode" => call.err = ""

\* ================================================== writes that may fail
\* store.WriteObject(obj) when the operating system may fail MkdirAll or a
\* step of WriteFileAtomic
CallWriteObject(obj, io) ==
    LET r == WriteObject(obj, dirs, files, io)
    IN /\ dirs' = r.dirs
       /\ files' = r.files
       /\ call' = [op |-> "WriteObject", in |-> [obj |-> obj, io |-> io], err |-> r.err,
                   out |-> [hash |-> r.hash, obj |-> r.obj]]
       /\ UNCHANGED <<tree, index, ret, log, osVars>>
\* the caller writes again the object the last successful write handed back
CallWriteAgain(io) ==
    /\ call.op = "WriteObject"
    /\ call.err = ""
    /\ CallWriteObject(call.out.obj, io)
\* two blobs, a blob without content, the empty tree, a tree and a commit
WriteFailInputs ==
    Blobs \cup {NewTree, AddAll(NewTree, <<EntryB, EntryA2>>), Commit1}
NextWriteFail ==
    \/ \E obj \in WriteFailInputs, io \in {"", "mkdir", "write"} :
          CallWriteObject(obj, io)
    \/ \E io \in {"", "mkdir", "write"} : CallWriteAgain(io)
SpecWriteFail == InitStore /\ [][NextWriteFail]_vars

\* C27: when WriteObject fails, in Serialize, in creating the directory or
\* in writing the file, it returns the empty hash with the error, the
\* object's hash is what it was before the call (unset for a fresh
\* object) and no object file is created or changed.
C27_FailedWrite ==
    [][(call'.op = "WriteObject" /\ call'.err # "")
          => /\ IsEmpty(call'.out.hash)
             /\ StoredHash(call'.out.obj) = StoredHash(call'.in.obj)
             /\ files' = files]_vars
C27_Witness ==
    /\ call.op = "WriteObject"
    /\ call.err = "failed to write object file"
    /\ call.in.obj.kind = "blob"
    /\ IsEmpty(StoredHash(call.out.obj))
    /\ files # <<>>

\* ======================================================= Tree.Serialize
\* t.Serialize() on the tree the caller holds; Serialize assigns to no
\* field of the tree
DoTreeSerialize ==
    /\ call' = [op |-> "Serialize", in |-> tree, err |-> TreeSerialize(tree).err,
                out |-> TreeSerialize(tree).val]
    /\ UNCHANGED <<tree, index, dirs, files, ret, log, osVars>>
NextTreeSerialize ==
    \/ \E entry \in EntryInputs : DoAddEntry(entry)
    \/ \E name \in NameInputs : DoRemoveEntry(name)
    \/ DoTreeSerialize
SpecTreeSerialize == InitTree /\ [][NextTreeSerialize]_vars

\* C28: Serialize of a tree with no entries fails (tree cannot be empty)
\* and of a tree with an entry succeeds; it leaves the tree as it was, and
\* a Serialize that follows a Serialize with no AddEntry or RemoveEntry
\* between them returns the same bytes.
C28_TreeSerialize ==
    [][call'.op = "Serialize"
          => /\ Len(tree.entries) = 0 => call'.err = "tree cannot be empty"
             /\ Len(tree.entries) >= 1 => call'.err = ""
             /\ tree' = tree
             /\ call.op = "Serialize" => (call'.err = call.err /\ call'.out = call.out)]_vars
C28_Witness ==
    /\ call.op = "Serialize"
    /\ call.err = ""
    /\ Len(tree.entries) = 2
    /\ call.out.hdr[1] = "tree"

\* ======================================================= Blob.Serialize
\* fmt.Sprintf("%d", n) as characters
RECURSIVE Sprintd(_)
Sprintd(n) ==
    IF n < 0 THEN <<45>> \o Sprintd(0 - n)
    ELSE IF n < 10 THEN <<48 + n>>
    ELSE Sprintd(n \div 10) \o <<48 + (n % 10)>>
\* the bytes Serialize appends: "blob", a space, the size, a zero byte and
\* the content
BlobTypeChars == <<98, 108, 111, 98>>
BlobWire(b) == BlobTypeChars \o <<32>> \o Sprintd(b.size) \o <<0>> \o b.content

MaxBlobLen == 3
BlobByteValues == {0, 32, 104}
RECURSIVE BytesUpTo(_)
BytesUpTo(n) ==
    IF n = 0 THEN {<<>>}
    ELSE BytesUpTo(n - 1)
         \cup {Append(c, x) : c \in {d \in BytesUpTo(n - 1) : Len(d) = n - 1}, x \in BlobByteValues}
\* what a caller passes to NewBlob: a byte slice, the nil slice among them
BlobArgs == [content : BytesUpTo(MaxBlobLen), isNil : {FALSE}] \cup {[content |-> <<>>, isNil |-> TRUE]}

CallNewBlob(arg) ==
    /\ call' = [op |-> "NewBlob", in |-> arg, err |-> "", out |-> NewBlob(arg.content, arg.isNil)]
    /\ UNCHANGED <<tree, index, dirs, files, ret, log, osVars>>
\* b.SetHash(h) on the blob NewBlob returned
CallBlobSetHash(h) ==
    /\ call.op = "NewBlob"
    /\ call' = [call EXCEPT !.out = SetHash(call.out, h)]
    /\ UNCHANGED <<tree, index, dirs, files, ret, log, osVars>>
\* b.Serialize() on the blob NewBlob returned
CallBlobSerialize ==
    /\ call.op = "NewBlob"
    /\ LET r == BlobSerialize(call.out)
       IN call' = [op |-> "BlobSerialize", in |-> call.out, err |-> r.err,
                   out |-> [data |-> r.val,
                            bytes |-> IF r.err = "" THEN BlobWire(call.out) ELSE <<>>]]
    /\ UNCHANGED <<tree, index, dirs, files, ret, log, osVars>>
NextBlob ==
    \/ \E arg \in BlobArgs : CallNewBlob(arg)
    \/ \E h \in {calculateHash(NoData)} : CallBlobSetHash(h)
    \/ CallBlobSerialize
SpecBlob == InitStore /\ [][NextBlob]_vars

\* C29: Serialize of a blob that NewBlob made from a byte slice, the empty
\* and the nil slice included, succeeds and returns "blob <len>", one zero
\* byte and then the content, <len> being the content length in decimal.
C29_BlobSerialize ==
    call.op = "BlobSerialize"
        => /\ call.err = ""
           /\ call.out.data = [hdr |-> <<"blob", Len(call.in.content)>>, payload |-> call.in.content]
           /\ call.out.bytes
                = BlobTypeChars \o <<32>> \o Sprintd(Len(call.in.content)) \o <<0>> \o call.in.content
\* the same for the blobs made from a slice that is not nil
C29_NonNil ==
    (call.op = "BlobSerialize" /\ ~call.in.contentNil)
        => /\ call.err = ""
           /\ call.out.bytes
                = BlobTypeChars \o <<32>> \o Sprintd(Len(call.in.content)) \o <<0>> \o call.in.content

\* ============================================ accessors and their slices
\* A slice is a reference into the memory of backing arrays: mem is the
\* sequence of the arrays allocated so far, a reference is an index of it.
\* The object's own slice (content, entries, parents) is the first array;
\* the caller holds the references the accessors returned.
\* make([]T, len(s)) followed by copy(dst, s)
MakeCopy(mem, at) == [mem |-> Append(mem, mem[at]), ref |-> Len(mem) + 1]
\* an accessor that returns the object's own slice
BlobContent_NoCopy(mem, at) == [mem |-> mem, ref |-> at]
BlobContent(mem, at) == MakeCopy(mem, at)
TreeEntries(mem, at) == MakeCopy(mem, at)
CommitParents(mem, at) == MakeCopy(mem, at)
Accessor(kind, mem, at) ==
    CASE kind = "blob" -> BlobContent(mem, at)
      [] kind = "tree" -> TreeEntries(mem, at)
      [] kind = "commit" -> CommitParents(mem, at)
AccessorName(kind) ==
    CASE kind = "blob" -> "Content" [] kind = "tree" -> "Entries" [] kind = "commit" -> "Parents"
SliceOf(o) ==
    CASE o.kind = "blob" -> o.content [] o.kind = "tree" -> o.entries [] o.kind = "commit" -> o.parents
\* the object as its methods see it: its fields, its slice read from memory
ObjectAt(o, mem) ==
    CASE o.kind = "blob" -> [o EXCEPT !.content = mem[1]]
      [] o.kind = "tree" -> [o EXCEPT !.entries = mem[1]]
      [] o.kind = "commit" -> [o EXCEPT !.parents = mem[1]]
\* what the caller writes into an element of a slice it holds
Scribble(kind) ==
    CASE kind = "blob" -> 255 [] kind = "tree" -> EntrySrc [] kind = "commit" -> NoHash
NoResult == [seq |-> <<>>, err |-> "", data |-> NoData]
AliasObjects ==
    {NewBlob(<<104, 0>>, FALSE), AddAll(NewTree, <<EntryB, EntryA2>>),
     NewCommit(TreeHash, <<BlobHash, TreeHash>>, SigAuthor, SigCommitter, <<109>>).val}
MaxHeld == 2

\* the object is built and its slice allocated
CallConstruct(o) ==
    /\ call.op = ""
    /\ call' = [op |-> "New", in |-> o, err |-> "",
                out |-> [mem |-> <<SliceOf(o)>>, held |-> <<>>, res |-> NoResult]]
    /\ UNCHANGED <<tree, index, dirs, files, ret, log, osVars>>
\* s := b.Content(), t.Entries() or c.Parents()
CallAccessor ==
    /\ call.op \in {"New", "Content", "Entries", "Parents", "Mutate", "ObjSerialize"}
    /\ Len(call.out.held) < MaxHeld
    /\ LET r == Accessor(call.in.kind, call.out.mem, 1)
       IN call' = [call EXCEPT !.op = AccessorName(call.in.kind),
                               !.out = [mem |-> r.mem, held |-> Append(call.out.held, r.ref),
                                        res |-> [NoResult EXCEPT !.seq = r.mem[r.ref]]]]
    /\ UNCHANGED <<tree, index, dirs, files, ret, log, osVars>>
\* s[i] = x on a slice an accessor returned
CallMutate(k, i) ==
    /\ call.op \in {"Content", "Entries", "Parents", "Mutate", "ObjSerialize"}
    /\ k \in 1..Len(call.out.held)
    /\ i \in 1..Len(call.out.mem[call.out.held[k]])
    /\ call' = [call EXCEPT !.op = "Mutate",
                            !.out.mem[call.out.held[k]][i] = Scribble(call.in.kind),
                            !.out.res = NoResult]
    /\ UNCHANGED <<tree, index, dirs, files, ret, log, osVars>>
\* obj.Serialize()
CallObjSerialize ==
    /\ call.op \in {"New", "Content", "Entries", "Parents", "Mutate", "ObjSerialize"}
    /\ LET r == Serialize(ObjectAt(call.in, call.out.mem))
       IN call' = [call EXCEPT !.op = "ObjSerialize",
                               !.out.res = [seq |-> <<>>, err |-> r.err, data |-> r.val]]
    /\ UNCHANGED <<tree, index, dirs, files, ret, log, osVars>>
NextAlias ==
    \/ \E o \in AliasObjects : CallConstruct(o)
    \/ CallAccessor
    \/ \E k \in 1..MaxHeld, i \in 1..2 : CallMutate(k, i)
    \/ CallObjSerialize
SpecAlias == InitStore /\ [][NextAlias]_vars

\* C30: whatever the caller writes into the slices that Content(),
\* Entries() and Parents() returned, a later call of the accessor returns
\* the sequence the object was built with and a later Serialize returns
\* the bytes of the object as built.
C30_DefensiveCopies ==
    /\ call.op \in {"Content", "Entries", "Parents"} => call.out.res.seq = SliceOf(call.in)
    /\ call.op = "ObjSerialize"
          => /\ call.out.res.err = Serialize(call.in).err
             /\ call.out.res.data = Serialize(call.in).val
C30_Witness ==
    /\ call.op \in {"Content", "Entries", "Parents"}
    /\ Len(call.out.held) = 2
    /\ call.out.mem[call.out.held[1]] # SliceOf(call.in)
    /\ call.out.res.seq = SliceOf(call.in)

\* ================================================================= tags
TagInputs ==
    {Tag1, NewTag(BlobHash, "blob", <<118, 50>>, SigAuthor, <<109>>).val,
     NewTag(TreeHash, "tree", <<118>>, SigCommitter, <<>>).val}
TagStoreInputs == TagInputs \cup {NewBlob(<<104, 0>>, FALSE), Commit1}
NextTag ==
    \/ \E obj \in TagStoreInputs : DoWriteObject(obj, "")
    \/ \E hash \in HashesOf(TagStoreInputs) : DoReadObject(hash)
SpecTag == InitStore /\ [][NextTag]_vars

\* the hash names a tag that a WriteObject stored
IsWrittenTag(hash) == \E l \in log : l.hash = hash /\ l.obj.kind = "tag"
\* no object file is at the path of the hash
NeverWritten(hash) ==
    hashToPath(hash).err # "" \/ ~FileExists(files, hashToPath(hash).val)

\* C31: WriteObject of a tag succeeds and stores its bytes at the path of
\* its hash; ReadObject of that hash fails, the dispatch saying that tag
\* deserialization is not implemented, and returns no object; ReadObject
\* of a hash with no object file fails; a failing read leaves the store
\* as it was.
C31_TagGap ==
    [][/\ (ret'.op = "write" /\ ret'.obj.kind = "tag")
            => /\ ret'.err = ""
               /\ ret'.hash = HashOf(ret'.obj)
               /\ FileExists(files', hashToPath(ret'.hash).val)
               /\ files'[hashToPath(ret'.hash).val] = CompressZstd(ret'.data)
       /\ (ret'.op = "read" /\ IsWrittenTag(ret'.hash))
            => /\ ret'.err = "failed to deserialize object"
               /\ deserializeByType("tag", DecompressZstd(ret'.bytes).val).err
                     = "tag deserialization not implemented yet"
               /\ ret'.obj = NoObject
       /\ (ret'.op = "read" /\ NeverWritten(ret'.hash))
            => (ret'.err # "" /\ ret'.obj = NoObject)
       /\ (ret'.op = "read" /\ ret'.err # "")
            => (files' = files /\ dirs' = dirs)]_vars
C31_Witness ==
    /\ ret.op = "read"
    /\ IsWrittenTag(ret.hash)
    /\ ret.err = "failed to deserialize object"
    /\ Cardinality(DOMAIN files) >= 2

\* ================================================================= Init
\* The repository root is the empty path: Init's argument made absolute.
RootPath == <<>>
HeadName == <<72, 69, 65, 68>>
RefsName == <<114, 101, 102, 115>>
HeadsName == <<104, 101, 97, 100, 115>>
TagsName == <<116, 97, 103, 115>>
ConfigName == <<99, 111, 110, 102, 105, 103>>
TextBytes(chars) == [form |-> "text", doc |-> chars]
HeadContent == TextBytes(<<114, 101, 102, 58, 32, 114, 101, 102, 115, 47, 104, 101, 97, 100, 115, 47, 109, 97, 115, 116, 101, 114, 10>>)
ConfigContent == TextBytes(<<91, 99, 111, 114, 101, 93, 10, 9, 114, 101, 112, 111, 115, 105, 116, 111, 114, 121, 102, 111, 114, 109, 97, 116, 118, 101, 114, 115, 105, 111, 110, 32, 61, 32, 48, 10>>)
\* os.MkdirAll(path): every missing directory on the way is made; a regular
\* file on the way is an error
RECURSIVE OsMkdirAll(_, _)
OsMkdirAll(fs, path) ==
    IF path \in DOMAIN fs
    THEN [err |-> IF fs[path].kind = "dir" THEN "" ELSE "ENOTDIR", fs |-> fs]
    ELSE IF path = <<>> THEN [err |-> "", fs |-> Put(fs, path, DirNode)]
    ELSE LET up == OsMkdirAll(fs, SubSeq(path, 1, Len(path) - 1))
         IN IF up.err # "" THEN up ELSE [err |-> "", fs |-> Put(up.fs, path, DirNode)]
RECURSIVE MkdirEach(_, _, _)
MkdirEach(fs, paths, io) ==
    IF paths = <<>> THEN [err |-> "", fs |-> fs]
    ELSE IF io = "mkdir" THEN [err |-> "EIO", fs |-> fs]
    ELSE LET m == OsMkdirAll(fs, paths[1])
         IN IF m.err # "" THEN m ELSE MkdirEach(m.fs, Tail(paths), io)
\* an Init without the check for an existing .sib
Init_Reinit(fs, io) ==
    LET sibDir == <<SibDir>>
        m == MkdirEach(fs, << <<SibDir, ObjectsName>>, <<SibDir, RefsName, HeadsName>>,
                              <<SibDir, RefsName, TagsName>> >>, io)
        h == WriteFileAt(m.fs, <<SibDir, HeadName>>, HeadContent)
    IN IF m.err # "" THEN [err |-> "failed to create directories", fs |-> m.fs]
       ELSE IF h.err # "" THEN [err |-> "failed to create HEAD", fs |-> h.fs]
       ELSE [err |-> "", fs |-> WriteFileAt(h.fs, <<SibDir, ConfigName>>, ConfigContent).fs]
\* commands.Init(repoPath).  io names the step the operating system fails,
\* if any: "mkdir" (os.MkdirAll) or "write" (os.WriteFile of HEAD).
Init(fs, io) ==
    LET sibDir == <<SibDir>>
        m == MkdirEach(fs, << <<SibDir, ObjectsName>>, <<SibDir, RefsName, HeadsName>>,
                              <<SibDir, RefsName, TagsName>> >>, io)
        h == IF io = "write" THEN [err |-> "EIO", fs |-> m.fs]
             ELSE WriteFileAt(m.fs, <<SibDir, HeadName>>, HeadContent)
        c == WriteFileAt(h.fs, <<SibDir, ConfigName>>, ConfigContent)
    IN IF Stat(fs, RootPath) = "" /\ ~IsDir(fs, RootPath)
       THEN [err |-> "path is not a directory", fs |-> fs]
       ELSE IF Stat(fs, sibDir) = "" THEN [err |-> "already a sib repository", fs |-> fs]
       ELSE IF m.err # "" THEN [err |-> "failed to create directories", fs |-> m.fs]
       ELSE IF h.err # "" THEN [err |-> "failed to create HEAD", fs |-> h.fs]
       ELSE [err |-> "", fs |-> c.fs]

\* what is at the argument of Init: nothing, a regular file, or a
\* directory holding a repository state and perhaps a work file
InitDirs ==
    {<<>>, Put(<<>>, RootPath, FileNode(EmptyBytes))}
       \cup {Put(fs, RootPath, DirNode) : fs \in RepoStates}
       \cup {Put(Put(<<>>, RootPath, DirNode), <<NameF>>, FileNode(EmptyBytes))}
InitInit ==
    /\ tree = NewTree
    /\ call = NoCall
    /\ index = NoIndex
    /\ dirs = {}
    /\ files = <<>>
    /\ ret = NoRet
    /\ log = {}
    /\ disk \in InitDirs
    /\ procs = <<>>
    /\ reader = <<>>
    /\ ncrash = 0
CallInit(io) ==
    /\ call' = IndexCall("Init", io, Init(disk, io).err, <<>>)
    /\ disk' = Init(disk, io).fs
    /\ UNCHANGED <<tree, index, dirs, files, ret, log, procs, reader, ncrash>>
NextInit ==
    \/ \E io \in {"", "mkdir", "write"} : CallInit(io)
    \/ CallNewObjectStore
SpecInit == InitInit /\ [][NextInit]_vars

\* the layout Init makes
Initialised(fs) ==
    /\ IsDir(fs, <<SibDir, ObjectsName>>)
    /\ IsDir(fs, <<SibDir, RefsName, HeadsName>>)
    /\ IsDir(fs, <<SibDir, RefsName, TagsName>>)
    /\ Stat(fs, <<SibDir, HeadName>>) = ""
    /\ fs[<<SibDir, HeadName>>] = FileNode(HeadContent)

\* C32: Init on a directory with no .sib in it, the operating system
\* failing no step, returns no error and leaves .sib/objects,
\* .sib/refs/heads, .sib/refs/tags and a HEAD holding
\* "ref: refs/heads/master\n", and NewObjectStore then succeeds; Init on a
\* directory that has a .sib fails with "already a sib repository" and
\* leaves every file as it was.
C32_Init ==
    [][call'.op = "Init"
          => /\ (IsDir(disk, RootPath) /\ Stat(disk, <<SibDir>>) # "" /\ call'.in = "")
                   => /\ call'.err = ""
                      /\ Initialised(disk')
                      /\ NewObjectStore(disk') = ""
             /\ (IsDir(disk, RootPath) /\ Stat(disk, <<SibDir>>) = "")
                   => (call'.err = "already a sib repository" /\ disk' = disk)]_vars
C32_Witness ==
    /\ call.op = "NewObjectStore"
    /\ call.err = ""
    /\ Initialised(disk)
    /\ <<NameF>> \in DOMAIN disk

\* ====================================================== the add command
\* Working-tree nodes as filepath.Walk (os.Lstat) and os.ReadFile see
\* them: a regular file has its bytes, a symbolic link has the path it
\* names, and Lstat gives a link the length of that path as its size.
WorkFile(content, mtime, exec) ==
    [kind |-> "file", data |-> content, size |-> Len(content), mtime |-> mtime, exec |-> exec]
WorkLink(target, mtime) ==
    [kind |-> "symlink", data |-> target, size |-> Len(JoinSlash(target)), mtime |-> mtime,
     exec |-> TRUE]
\* os.ReadFile(path): a link is followed
ReadWork(fs, path) ==
    IF path \notin DOMAIN fs THEN Fail("ENOENT", <<>>)
    ELSE IF fs[path].kind = "dir" THEN Fail("EISDIR", <<>>)
    ELSE IF fs[path].kind = "file" THEN Ok(fs[path].data)
    ELSE IF fs[path].data \in DOMAIN fs /\ fs[fs[path].data].kind = "file"
         THEN Ok(fs[fs[path].data].data)
    ELSE Fail("ENOENT", <<>>)
\* hash.String(): the hex digest as characters; the model names a digest
\* by the data it is the digest of
HashString(h) ==
    IF h.len = 0 THEN <<>> ELSE <<104>> \o Sprintd(h.of.hdr[2]) \o <<58>> \o h.of.payload
\* isInsideSibDir(path, repoPath)
isInsideSibDir(path) ==
    /\ path[1] = SibDir
    /\ ~(Len(path) >= 2 /\ Len(path[2]) >= 2 /\ SubSeq(path[2], 1, 2) = <<46, 46>>)
\* the walk visits names in lexical order, a directory before its files
RECURSIVE PathLess(_, _)
PathLess(p, q) ==
    IF p = <<>> THEN q # <<>>
    ELSE IF q = <<>> THEN FALSE
    ELSE IF p[1] = q[1] THEN PathLess(Tail(p), Tail(q))
    ELSE LexLess(p[1], q[1])
RECURSIVE WalkOrder(_)
WalkOrder(S) ==
    IF S = {} THEN <<>>
    ELSE LET m == CHOOSE x \in S : \A y \in S \ {x} : PathLess(x, y)
         IN <<m>> \o WalkOrder(S \ {m})
\* the files the walk callback reads: not a directory, not below a
\* directory named .sib, not inside the repository's .sib, no name that
\* starts with a dot, and readable
Hidden(path) == path[Len(path)][1] = 46
WalkedFiles(fs) ==
    {p \in DOMAIN fs : p # <<>> /\ fs[p].kind # "dir" /\ ~Skipped(fs, p)
                       /\ ~isInsideSibDir(p) /\ ~Hidden(p) /\ ReadWork(fs, p).err = ""}
\* the walk callback on each path in turn: the blob is written, then the
\* entry is added; an add into a nil map stops the program
RECURSIVE WalkAdd(_, _, _, _, _, _)
WalkAdd(paths, fs, idx, ds, fls, now) ==
    IF paths = <<>> THEN [err |-> "", idx |-> idx, dirs |-> ds, files |-> fls]
    ELSE LET path == paths[1]
             info == fs[path]
             blob == NewBlob(ReadWork(fs, path).val, FALSE)
             mode == DetectFileMode([isDir |-> info.kind = "dir", exec |-> info.exec])
             \* the callback on this path, then the walk of the paths after it
             step(w, a) ==
                 IF w.err # "" THEN WalkAdd(Tail(paths), fs, idx, w.dirs, w.files, now)
                 ELSE IF a.err = "panic: assignment to entry in nil map"
                      THEN [err |-> a.err, idx |-> idx, dirs |-> w.dirs, files |-> w.files]
                 ELSE WalkAdd(Tail(paths), fs, a.idx, w.dirs, w.files, now)
         IN CHOOSE r \in {step(w, a) :
                             w \in {WriteObject(blob, ds, fls, "")},
                             a \in {IndexAdd(idx, JoinSlash(path),
                                             HashString(WriteObject(blob, ds, fls, "").hash),
                                             info.size, mode, info.mtime, now)}} : TRUE
\* what Add returns, given what NewIndex (i), the walk (w) and Save (v)
\* returned
AddResult(i, w, v, ds, fls) ==
    IF i.err # ""
    THEN [err |-> "failed to load index", fs |-> i.fs, dirs |-> ds, files |-> fls]
    ELSE IF NewObjectStore(i.fs) # ""
         THEN [err |-> "failed to create object store", fs |-> i.fs, dirs |-> ds,
               files |-> fls]
    ELSE IF w.err # "" THEN [err |-> w.err, fs |-> i.fs, dirs |-> w.dirs, files |-> w.files]
    ELSE IF v.err # ""
         THEN [err |-> "failed to save index", fs |-> v.fs, dirs |-> w.dirs, files |-> w.files]
    ELSE [err |-> "", fs |-> v.fs, dirs |-> w.dirs, files |-> w.files]
\* commands.Add(repoPath): the error, the files, and the object store.
\* The result of each stage is named once: i, w and v range over one value.
CmdAdd(fs, ds, fls, now) ==
    IF IsNotExist(Stat(fs, <<SibDir>>))
    THEN [err |-> "not a sib repository", fs |-> fs, dirs |-> ds, files |-> fls]
    ELSE CHOOSE r \in
            UNION {UNION {{AddResult(i, w, v, ds, fls) : v \in {IndexSave(w.idx, i.fs)}} :
                             w \in {WalkAdd(WalkOrder(WalkedFiles(i.fs)), i.fs, i.idx,
                                            ds, fls, now)}} :
                      i \in {NewIndex(fs)}} : TRUE

\* the working trees the command is run on: a file f, a directory d with a
\* file g and with a nested .sib, a file .h, and a link l that names f
NameH == <<46, 104>>
NameL == <<108>>
AddTree(f, d, g, n, h, l) ==
    LET t0 == Put(<<>>, RootPath, DirNode)
        t1 == IF f = Absent THEN t0 ELSE Put(t0, <<NameF>>, f)
        t2 == IF d THEN Put(t1, <<NameD>>, DirNode) ELSE t1
        t3 == IF d /\ g THEN Put(t2, <<NameD, NameG>>, WorkFile(<<97>>, Mtime1, FALSE)) ELSE t2
        t4 == IF d /\ n
              THEN Put(Put(t3, <<NameD, SibDir>>, DirNode), <<NameD, SibDir, NameG>>,
                       WorkFile(<<98>>, Mtime1, FALSE))
              ELSE t3
        t5 == IF h THEN Put(t4, <<NameH>>, WorkFile(<<98>>, Mtime1, FALSE)) ELSE t4
    IN IF l THEN Put(t5, <<NameL>>, WorkLink(<<NameF>>, Mtime2)) ELSE t5
AddFiles ==
    {Absent, WorkFile(<<>>, Mtime1, FALSE), WorkFile(<<97>>, Mtime1, FALSE),
     WorkFile(<<97, 98>>, Mtime2, TRUE)}
AddTrees ==
    {AddTree(f, d, g, n, h, l) :
        f \in AddFiles, d \in BOOLEAN, g \in BOOLEAN, n \in BOOLEAN, h \in BOOLEAN,
        l \in BOOLEAN}
InitAdd ==
    /\ tree = NewTree
    /\ call = NoCall
    /\ index = NoIndex
    /\ dirs = {}
    /\ files = <<>>
    /\ ret = NoRet
    /\ log = {}
    /\ disk \in AddTrees
    /\ procs = <<>>
    /\ reader = <<>>
    /\ ncrash = 0
\* sib add
CallCmdAdd ==
    \E r \in {CmdAdd(disk, dirs, files, Now)} :
       /\ call' = IndexCall("CmdAdd", <<>>, r.err, <<>>)
       /\ disk' = r.fs
       /\ dirs' = r.dirs
       /\ files' = r.files
       /\ UNCHANGED <<tree, index, ret, log, procs, reader, ncrash>>
\* idx, _ := NewIndex(repoPath); idx.Diff(repoPath)
CallDiffSaved ==
    \E i \in {NewIndex(disk)} :
       /\ call.op = "CmdAdd"
       /\ call.err = ""
       /\ call' = IndexCall("DiffSaved", <<>>, i.err, Diff(i.idx, i.fs))
       /\ disk' = i.fs
       /\ UNCHANGED <<tree, index, dirs, files, ret, log, procs, reader, ncrash>>
NextAdd ==
    \/ CallInit("")
    \/ CallCmdAdd
    \/ CallDiffSaved
SpecAdd == InitAdd /\ [][NextAdd]_vars

\* the index as saved in the repository
SavedIndex(fs) == IndexLoad(EmptyIndex, fs).idx
PathOfKey(k) == CleanComps(SplitOn(k, Separators(GOOS)), <<>>, TRUE)
\* the entry under k agrees with the file at k and with the store
EntryMatches(e, k, fs, fls) ==
    LET path == PathOfKey(k)
        content == ReadWork(fs, path).val
        h == HashOf(NewBlob(content, FALSE))
    IN /\ ReadWork(fs, path).err = ""
       /\ e.Hash = HashString(h)
       /\ ReadObject(h, fls).err = ""
       /\ ReadObject(h, fls).val.kind = "blob"
       /\ ReadObject(h, fls).val.content = content
       /\ e.Size = Len(content)
       /\ TimeEqual(e.Mtime, fs[path].mtime)
NoLinks(fs) == \A p \in DOMAIN fs : fs[p].kind # "symlink"

\* C33: the add command on a directory without .sib fails and creates
\* nothing; after an add that returns no error, every entry of the saved
\* index has the hash of a stored blob whose content is the content read
\* from the file at the entry's path, and has that file's size and mtime.
C33_AddConsistent ==
    [][call'.op = "CmdAdd"
          => /\ IsNotExist(Stat(disk, <<SibDir>>))
                   => (call'.err # "" /\ disk' = disk /\ dirs' = dirs /\ files' = files)
             /\ call'.err = ""
                   => \A k \in DOMAIN SavedIndex(disk').Entries :
                          EntryMatches(SavedIndex(disk').Entries[k], k, disk, files')]_vars
\* the same on the working trees without symbolic links
C33_NoLinks ==
    [][(call'.op = "CmdAdd" /\ NoLinks(disk))
          => /\ IsNotExist(Stat(disk, <<SibDir>>))
                   => (call'.err # "" /\ disk' = disk /\ dirs' = dirs /\ files' = files)
             /\ call'.err = ""
                   => \A k \in DOMAIN SavedIndex(disk').Entries :
                          EntryMatches(SavedIndex(disk').Entries[k], k, disk, files')]_vars

NoHidden(fs) == \A p \in DOMAIN fs : p = <<>> \/ ~Hidden(p) \/ Skipped(fs, p) \/ p[1] = SibDir

\* C39: a diff of the saved index that follows a successful add on a
\* freshly initialised repository, the working tree not touched between
\* them, reports nothing added, nothing modified and nothing deleted, on
\* every working tree, the ones with a file whose name starts with a dot
\* included.
C39_AddThenDiff ==
    [][(call.op = "CmdAdd" /\ call.err = "" /\ call'.op = "DiffSaved")
          => /\ call'.err = ""
             /\ call'.out = [added |-> <<>>, modified |-> <<>>, deleted |-> <<>>]]_vars
\* the same on the working trees with no such file and no symbolic link
C39_NoHidden ==
    [][(call.op = "CmdAdd" /\ call.err = "" /\ call'.op = "DiffSaved"
          /\ NoHidden(disk) /\ NoLinks(disk))
          => /\ call'.err = ""
             /\ call'.out = [added |-> <<>>, modified |-> <<>>, deleted |-> <<>>]]_vars

\* =========================================== content addressing of trees
\* the trees written so far
WrittenTrees == {l \in log : l.obj.kind = "tree"}

\* C34: two trees whose entry lists differ, in the name, the mode, the
\* hash or the kind of an entry, serialize to different bytes and are
\* written under different hashes.
C34_TreesDistinct ==
    \A l1 \in WrittenTrees, l2 \in WrittenTrees :
        l1.obj.entries # l2.obj.entries => (l1.data # l2.data /\ l1.hash # l2.hash)
\* the same for trees with different numbers of entries
C34_ByCount ==
    \A l1 \in WrittenTrees, l2 \in WrittenTrees :
        Len(l1.obj.entries) # Len(l2.obj.entries) => (l1.data # l2.data /\ l1.hash # l2.hash)

\* ============================================ two actors and one index
\* Each actor runs NewIndex, Add and Save on its own Index value; nothing
\* locks the index file.  procs[a] is the actor's position, its Index and
\* whether its NewIndex ran while the other actor was between its own
\* NewIndex and Save.
Actors == {1, 2}
Other(a) == 3 - a
ActorPath(a) == IF a = 1 THEN PathAB ELSE PathOther
IdleActor == [pc |-> "idle", idx |-> NoIndex, overlapped |-> FALSE]
LostDisks ==
    {SibWith(DirNode, i) :
        i \in {Absent, FileNode(EmptyBytes), FileNode(GarbageBytes), FileNode(NullJSON),
               FileNode(JSONText(IndexJSON(IndexOf(3))))}}
InitLost ==
    /\ tree = NewTree
    /\ call = NoCall
    /\ index = NoIndex
    /\ dirs = {}
    /\ files = <<>>
    /\ ret = NoRet
    /\ log = {}
    /\ disk \in LostDisks
    /\ procs = [a \in Actors |-> IdleActor]
    /\ reader = <<>>
    /\ ncrash = 0
ActorLoad(a) ==
    LET r == NewIndex(disk)
    IN /\ procs[a].pc = "idle"
       /\ disk' = r.fs
       /\ procs' = [procs EXCEPT ![a] =
                       [pc |-> IF r.err = "" THEN "loaded" ELSE "failed", idx |-> r.idx,
                        overlapped |-> procs[Other(a)].pc \in {"loaded", "added"}]]
       /\ call' = IndexCall("ActorLoad", a, r.err, <<>>)
       /\ UNCHANGED <<tree, index, dirs, files, ret, log, reader, ncrash>>
ActorAdd(a) ==
    LET r == IndexAdd(procs[a].idx, ActorPath(a), Hash1, 2, "100644", Mtime1, Now)
    IN /\ procs[a].pc = "loaded"
       /\ procs' = [procs EXCEPT ![a].pc = IF r.err = "" THEN "added" ELSE "failed",
                                 ![a].idx = r.idx]
       /\ call' = IndexCall("ActorAdd", a, r.err, <<>>)
       /\ UNCHANGED <<tree, index, dirs, files, ret, log, disk, reader, ncrash>>
ActorSave(a) ==
    LET r == IndexSave(procs[a].idx, disk)
    IN /\ procs[a].pc = "added"
       /\ disk' = r.fs
       /\ procs' = [procs EXCEPT ![a].pc = IF r.err = "" THEN "saved" ELSE "failed",
                                 ![a].idx = r.idx]
       /\ call' = IndexCall("ActorSave", a, r.err, <<>>)
       /\ UNCHANGED <<tree, index, dirs, files, ret, log, reader, ncrash>>
NextLost ==
    \/ \E a \in Actors : ActorLoad(a)
    \/ \E a \in Actors : ActorAdd(a)
    \/ \E a \in Actors : ActorSave(a)
SpecLost == InitLost /\ [][NextLost]_vars

BothSaved == \A a \in Actors : procs[a].pc = "saved"
Persisted(a) == normalizePath(ActorPath(a)) \in DOMAIN SavedIndex(disk).Entries
Overlapped == \E a \in Actors : procs[a].overlapped

\* C35: when the two add/save cycles ran one after the other, each
\* NewIndex after the other actor's Save, both added paths are in the
\* persisted index; a persisted index that has lost one of the two paths
\* comes from cycles that overlapped, and such an interleaving exists.
C35_LostUpdate ==
    BothSaved
        => /\ ~Overlapped => \A a \in Actors : Persisted(a)
           /\ (\E a \in Actors : ~Persisted(a)) => Overlapped
C35_Witness ==
    /\ BothSaved
    /\ Overlapped
    /\ \E a \in Actors : Persisted(a) /\ ~Persisted(Other(a))

\* ================================================ the map after loading
ValidAddArgs(in) ==
    in.path # <<>> /\ in.hash # <<>> /\ in.size >= 0 /\ isValidMode(in.mode)

\* C36: once NewIndex has succeeded, whatever the index file held, an Add
\* with valid arguments succeeds, the entry is in the map and Count
\* counts it.
C36_MapUsable ==
    [][(call'.op = "Add" /\ ValidAddArgs(call'.in))
          => /\ call'.err = ""
             /\ normalizePath(call'.in.path) \in DOMAIN index'.Entries
             /\ Count(index') >= 1
             /\ Count(index') = Cardinality(DOMAIN index.Entries \cup {normalizePath(call'.in.path)})]_vars
\* the same for an Index whose map was made
C36_MapMade ==
    [][(call'.op = "Add" /\ ValidAddArgs(call'.in) /\ ~index.nilMap)
          => /\ call'.err = ""
             /\ normalizePath(call'.in.path) \in DOMAIN index'.Entries
             /\ Count(index') = Cardinality(DOMAIN index.Entries \cup {normalizePath(call'.in.path)})]_vars

NextReadOnly ==
    \/ CallDiff
    \/ \E order \in UNION {Orders(S) : S \in SUBSET {NameF, NameD, PathOther}} :
           CallValidate(order)
SpecReadOnly == InitDiff /\ [][NextReadOnly]_vars

NoDuplicates(list) == \A i, j \in 1..Len(list) : list[i] = list[j] => i = j

\* C38: Diff and Validate leave the entries of the index and the working
\* tree as they were, and in every result of Diff the added, modified and
\* deleted lists have no path in common and no path twice.
C38_ReadOnlyPartition ==
    [][call'.op \in {"Diff", "Validate"}
          => /\ index' = index
             /\ disk' = disk
             /\ call'.op = "Diff"
                   => /\ Members(call'.out.added) \cap Members(call'.out.modified) = {}
                      /\ Members(call'.out.added) \cap Members(call'.out.deleted) = {}
                      /\ Members(call'.out.modified) \cap Members(call'.out.deleted) = {}
                      /\ NoDuplicates(call'.out.added)
                      /\ NoDuplicates(call'.out.modified)
                      /\ NoDuplicates(call'.out.deleted)]_vars
C38_Witness ==
    /\ call.op = "Diff"
    /\ call.out.added # <<>>
    /\ call.out.modified # <<>>
    /\ call.out.deleted # <<>>

\* ======================================== constructors and their inputs
\* NewBlob(content) and NewCommit(tree, parents, ...) store the slice they
\* are given: the object's slice and the caller's are one array, the
\* first of the memory.
InputObjects ==
    {NewBlob(<<104, 0>>, FALSE), NewBlob(<<97>>, FALSE),
     NewCommit(TreeHash, <<BlobHash, TreeHash>>, SigAuthor, SigCommitter, <<109>>).val,
     NewCommit(TreeHash, <<BlobHash>>, SigAuthor, SigSame, <<109>>).val}
\* content := ...; obj := NewBlob(content)   (parents and NewCommit alike)
CallNewFrom(o) ==
    /\ call.op = ""
    /\ call' = [op |-> "New", in |-> o, err |-> "",
                out |-> [mem |-> <<SliceOf(o)>>, held |-> <<1>>, res |-> NoResult]]
    /\ UNCHANGED <<tree, index, dirs, files, ret, log, osVars>>
NextInputs ==
    \/ \E o \in InputObjects : CallNewFrom(o)
    \/ CallAccessor
    \/ \E k \in 1..MaxHeld, i \in 1..2 : CallMutate(k, i)
    \/ CallObjSerialize
SpecInputs == InitStore /\ [][NextInputs]_vars

\* C40: whatever the caller writes into the content or parents slice it
\* gave to NewBlob or NewCommit, Content() and Parents() return the
\* sequence the object was built with and Serialize returns the bytes of
\* the object as built.
C40_InputsKept ==
    /\ call.op \in {"Content", "Parents"} => call.out.res.seq = SliceOf(call.in)
    /\ call.op = "ObjSerialize" => call.out.res.data = Serialize(call.in).val
\* the same while the caller has not written into the slice it gave
C40_Untouched ==
    (call.op # "" /\ call.out.mem[1] = SliceOf(call.in))
        => /\ call.op \in {"Content", "Parents"} => call.out.res.seq = SliceOf(call.in)
           /\ call.op = "ObjSerialize" => call.out.res.data = Serialize(call.in).val
====
